---- MODULE Spec2Model ----
(***************************************************************************)
(* A model of the symbols-extractor core: the multi-level symbol table     *)
(* stack (package stack) and the statement parser (package statement)      *)
(* that walks function bodies, maintains the stack and emits contracts.    *)
(***************************************************************************)
EXTENDS Integers, Sequences, FiniteSets, TLC

VARIABLES
    SymbolTable,     \* the Stack: [Tables |-> <<table, ...>>, Size |-> n]
    ContractTable,   \* [contracts |-> <<contract, ...>>, virtual |-> next id]
    lastConstType,   \* Parser.lastConstType
    allocated,       \* AllocatedSymbolsTable: sequence of data type uses
    call,            \* the last operation: what was called and what it returned
    ncalls,          \* number of operations run so far
    packageStack,    \* ProjectParser.packageStack: the package contexts, top first
    globalSymbolTable, \* ProjectParser.globalSymbolTable: the packages stored
    gopath           \* the packages on disk: path -> files -> import paths

vars == <<SymbolTable, ContractTable, lastConstType, allocated, call, ncalls,
          packageStack, globalSymbolTable, gopath>>

(***************************************************************************)
(* Bounds of the model                                                     *)
(***************************************************************************)
\* deepest stack the stack operations are driven to
MaxSize == 3

\* the calls made to the statement parser in one run
MaxCalls == 2

\* the package contexts the project parser may hold at once
MaxStack == 5

\* a value computed once and named: With([x \in {v} |-> e]) is e with v for x
With(f) == f[CHOOSE x \in DOMAIN f : TRUE]

(***************************************************************************)
(* Data types (pkg/types): tagged records                                  *)
(***************************************************************************)
NilType == [k |-> "nil"]
Builtin(def, untyped) == [k |-> "builtin", def |-> def, untyped |-> untyped]
Identifier(def, pkg) == [k |-> "identifier", def |-> def, package |-> pkg]
Pointer(t) == [k |-> "pointer", elem |-> t]
Slice(t) == [k |-> "slice", elem |-> t]
Array(t) == [k |-> "array", elem |-> t]
Ellipsis(t) == [k |-> "ellipsis", elem |-> t]
Map(kt, vt) == [k |-> "map", keytype |-> kt, valuetype |-> vt]
Channel(t) == [k |-> "channel", value |-> t]
Interface == [k |-> "interface"]
Struct(fields) == [k |-> "struct", fields |-> fields]
Function(results) == [k |-> "function", results |-> results]
Method(def, receiver) == [k |-> "method", fdef |-> def, receiver |-> receiver]
PackageQualifier(name) == [k |-> "packagequalifier", qname |-> name]

(***************************************************************************)
(* Symbol definitions and one symbol table (package symboltable).  A table *)
(* is a set of entries keyed by (kind, name).                              *)
(***************************************************************************)
VariableSymbol == "variables"
DataTypeSymbol == "datatypes"
FunctionSymbol == "functions"

SymbolDef(name, pkg, def, pos) ==
    [Name |-> name, Package |-> pkg, Def |-> def, Pos |-> pos]

NoSymbol == SymbolDef("", "", NilType, 0)

Entry(kind, sym) == [kind |-> kind, sym |-> sym]

NewTable == {}

TableHas(t, kind, name) == \E e \in t : e.kind = kind /\ e.sym.Name = name

TableGet(t, kind, name) == (CHOOSE e \in t : e.kind = kind /\ e.sym.Name = name).sym

\* Table.AddVariable: a variable of the same name is a duplicate
TableAddVariable(t, sym) ==
    IF TableHas(t, VariableSymbol, sym.Name)
    THEN [err |-> TRUE, t |-> t]
    ELSE [err |-> FALSE, t |-> t \cup {Entry(VariableSymbol, sym)}]

\* Table.AddFunction: a function of the same name is a duplicate
TableAddFunction(t, sym) ==
    IF TableHas(t, FunctionSymbol, sym.Name)
    THEN [err |-> TRUE, t |-> t]
    ELSE [err |-> FALSE, t |-> t \cup {Entry(FunctionSymbol, sym)}]

\* Table.AddDataType: an entry whose def is null is a forward declaration
\* and is completed by the next insertion; a completed one is a duplicate
TableAddDataType(t, sym) ==
    IF TableHas(t, DataTypeSymbol, sym.Name)
       /\ TableGet(t, DataTypeSymbol, sym.Name).Def # NilType
    THEN [err |-> TRUE, t |-> t]
    ELSE [err |-> FALSE,
          t |-> {e \in t : ~(e.kind = DataTypeSymbol /\ e.sym.Name = sym.Name)}
                \cup {Entry(DataTypeSymbol, sym)}]

TableLookupVariable(t, name) ==
    IF TableHas(t, VariableSymbol, name)
    THEN [err |-> FALSE, def |-> TableGet(t, VariableSymbol, name)]
    ELSE [err |-> TRUE, def |-> NoSymbol]

\* Table.Lookup: the symbol of that name, of whatever kind
TableLookup(t, name) ==
    IF \E e \in t : e.sym.Name = name
    THEN LET e == CHOOSE e \in t : e.sym.Name = name
         IN [err |-> FALSE, def |-> e.sym, st |-> e.kind]
    ELSE [err |-> TRUE, def |-> NoSymbol, st |-> ""]

(***************************************************************************)
(* The Stack (package stack).  Go indexes Tables from 0; Tables[i] of the  *)
(* source is Tables[i+1] here.                                             *)
(***************************************************************************)
New == [Tables |-> <<>>, Size |-> 0]

Push(s) == [Tables |-> Append(s.Tables, NewTable), Size |-> s.Size + 1]

\* Pop that returns quietly on an empty stack
PopSilent(s) ==
    IF s.Size > 0
    THEN [panicked |-> FALSE,
          s |-> [Tables |-> SubSeq(s.Tables, 1, s.Size - 1), Size |-> s.Size - 1]]
    ELSE [panicked |-> FALSE, s |-> s]

Pop(s) ==
    IF s.Size > 0
    THEN [panicked |-> FALSE,
          s |-> [Tables |-> SubSeq(s.Tables, 1, s.Size - 1), Size |-> s.Size - 1]]
    ELSE [panicked |-> TRUE, s |-> s]

AddVariable(s, sym) ==
    IF s.Size > 0
    THEN With([r \in {TableAddVariable(s.Tables[s.Size], sym)} |->
           [err |-> r.err, s |-> [s EXCEPT !.Tables[s.Size] = r.t]]])
    ELSE [err |-> TRUE, s |-> s]

AddDataType(s, sym) ==
    IF s.Size > 0
    THEN With([r \in {TableAddDataType(s.Tables[s.Size], sym)} |->
           [err |-> r.err, s |-> [s EXCEPT !.Tables[s.Size] = r.t]]])
    ELSE [err |-> TRUE, s |-> s]

\* AddFunction that stores the function in the table of level 0
AddFunctionAtFileLevel(s, sym) ==
    IF s.Size > 0
    THEN With([r \in {TableAddFunction(s.Tables[1], sym)} |->
           [err |-> r.err, s |-> [s EXCEPT !.Tables[1] = r.t]]])
    ELSE [err |-> TRUE, s |-> s]

AddFunction(s, sym) ==
    IF s.Size > 0
    THEN With([r \in {TableAddFunction(s.Tables[s.Size], sym)} |->
           [err |-> r.err, s |-> [s EXCEPT !.Tables[s.Size] = r.t]]])
    ELSE [err |-> TRUE, s |-> s]

\* for i := s.Size - 1; i >= 0; i-- : the loop from level i down
RECURSIVE LookupVariableFrom(_, _, _)
LookupVariableFrom(s, name, i) ==
    IF i < 0 THEN [err |-> TRUE, def |-> NoSymbol]
    ELSE With([r \in {TableLookupVariable(s.Tables[i + 1], name)} |->
           IF ~r.err THEN r ELSE LookupVariableFrom(s, name, i - 1)])

LookupVariable(s, name) == LookupVariableFrom(s, name, s.Size - 1)

RECURSIVE LookupFrom(_, _, _)
LookupFrom(s, name, i) ==
    IF i < 0 THEN [err |-> TRUE, def |-> NoSymbol, st |-> ""]
    ELSE With([r \in {TableLookup(s.Tables[i + 1], name)} |->
           IF ~r.err THEN r ELSE LookupFrom(s, name, i - 1)])

RECURSIVE LookupUpFrom(_, _, _)
LookupUpFrom(s, name, i) ==
    IF i > s.Size - 1 THEN [err |-> TRUE, def |-> NoSymbol, st |-> ""]
    ELSE With([r \in {TableLookup(s.Tables[i + 1], name)} |->
           IF ~r.err THEN r ELSE LookupUpFrom(s, name, i + 1)])

\* Lookup that searches from level 0 up
LookupBottomUp(s, name) == LookupUpFrom(s, name, 0)

Lookup(s, name) == LookupFrom(s, name, s.Size - 1)

\* Reset that cuts one table too many
ResetOffByOne(s, level) ==
    IF level < 0 \/ (s.Size - 1) < level
    THEN [err |-> TRUE, s |-> s]
    ELSE [err |-> FALSE, s |-> [Tables |-> SubSeq(s.Tables, 1, level), Size |-> level]]

Reset(s, level) ==
    IF level < 0 \/ (s.Size - 1) < level
    THEN [err |-> TRUE, s |-> s]
    ELSE IF level = 0
    THEN [err |-> FALSE, s |-> [Tables |-> SubSeq(s.Tables, 1, 1), Size |-> 1]]
    ELSE [err |-> FALSE,
          s |-> [Tables |-> SubSeq(s.Tables, 1, level + 1), Size |-> level + 1]]

Table(s, level) ==
    IF level < 0 \/ s.Size - 1 < level
    THEN [err |-> TRUE, t |-> NewTable]
    ELSE [err |-> FALSE, t |-> s.Tables[level + 1]]

CurrentLevel(s) == s.Size - 1

(***************************************************************************)
(* Type variables (contracts/typevars) and contracts (package contracts)   *)
(***************************************************************************)
Variable(pkg, name, pos) == [k |-> "Variable", package |-> pkg, name |-> name, pos |-> pos]
Constant(pkg, t) == [k |-> "Constant", package |-> pkg, dtype |-> t]
VirtualVar(id) == [k |-> "VirtualVar", id |-> id]
CGO == [k |-> "CGO"]
MakeRangeKey(x) == [k |-> "RangeKey", over |-> x]
MakeRangeValue(x) == [k |-> "RangeValue", over |-> x]
ReturnType(f, i) == [k |-> "ReturnType", function |-> f, index |-> i]
Field(x, name) == [k |-> "Field", of |-> x, fname |-> name]
VariableFromSymbolDef(sDef) == Variable(sDef.Package, sDef.Name, sDef.Pos)
MakeConstant(pkg, t) == Constant(pkg, t)

PropagatesToType == "propagatesto"
IsCompatibleWithType == "iscompatiblewith"
IsInvocableType == "isinvocable"
HasFieldType == "hasfield"
IsDereferenceableType == "Isdereferenceable"
IsIndexableType == "isindexable"
IsSendableToType == "issendableto"
IsReceiveableFromType == "isreceiveablefrom"
IsIncDecableType == "isincdecable"
IsRangeableType == "israngeable"

\* the contracts of the statement parser; fields left at their zero value are omitted
PropagatesTo(x, y, e) == [k |-> PropagatesToType, X |-> x, Y |-> y, ExpectedType |-> e]
IsCompatibleWith(x, y, e, weak) ==
    [k |-> IsCompatibleWithType, X |-> x, Y |-> y, ExpectedType |-> e, Weak |-> weak]
IsInvocable(f, n) == [k |-> IsInvocableType, F |-> f, ArgsCount |-> n]
HasField(x, f) == [k |-> HasFieldType, X |-> x, Field |-> f]
IsDereferenceable(x) == [k |-> IsDereferenceableType, X |-> x]
IsIndexable(x, key) == [k |-> IsIndexableType, X |-> x, Key |-> key]
IsSendableTo(x, y) == [k |-> IsSendableToType, X |-> x, Y |-> y]
IsReceiveableFrom(x, y) == [k |-> IsReceiveableFromType, X |-> x, Y |-> y]
IsIncDecable(x) == [k |-> IsIncDecableType, X |-> x]
IsRangeable(x) == [k |-> IsRangeableType, X |-> x]

(***************************************************************************)
(* The syntax tree (go/ast): expressions, type expressions, statements.    *)
(* Nil is the nil node of an optional position.                            *)
(***************************************************************************)
Nil == [k |-> "nil"]
TokDEFINE == ":="
TokASSIGN == "="
TokARROW == "<-"

Ident(name, pos) == [k |-> "Ident", Name |-> name, NamePos |-> pos]
BasicLit(kind) == [k |-> "BasicLit", Kind |-> kind]
ParenExpr(x) == [k |-> "ParenExpr", X |-> x]
StarExpr(x) == [k |-> "StarExpr", X |-> x]
UnaryExpr(op, x) == [k |-> "UnaryExpr", Op |-> op, X |-> x]
SelectorExpr(x, sel) == [k |-> "SelectorExpr", X |-> x, Sel |-> sel]
IndexExpr(x, index) == [k |-> "IndexExpr", X |-> x, Index |-> index]
CallExpr(fun, args) == [k |-> "CallExpr", Fun |-> fun, Args |-> args]
TypeAssertExpr(x, t) == [k |-> "TypeAssertExpr", X |-> x, Type |-> t]
ArrayType(elt) == [k |-> "ArrayType", Elt |-> elt]
MapType(key, value) == [k |-> "MapType", Key |-> key, Value |-> value]
ChanType(value) == [k |-> "ChanType", Value |-> value]
StructType(fields) == [k |-> "StructType", Fields |-> fields]
InterfaceType == [k |-> "InterfaceType"]
AstField(names, t) == [Names |-> names, Type |-> t]
FuncType(params, results) == [k |-> "FuncType", Params |-> params, Results |-> results]

ValueSpec(names, t, values) == [k |-> "ValueSpec", Names |-> names, Type |-> t, Values |-> values]
TypeSpec(name, t) == [k |-> "TypeSpec", Name |-> name, Type |-> t]
DeclStmt(specs) == [k |-> "DeclStmt", Specs |-> specs]
LabeledStmt(stmt) == [k |-> "LabeledStmt", Stmt |-> stmt]
ExprStmt(x) == [k |-> "ExprStmt", X |-> x]
SendStmt(ch, value) == [k |-> "SendStmt", Chan |-> ch, Value |-> value]
IncDecStmt(x) == [k |-> "IncDecStmt", X |-> x]
AssignStmt(lhs, tok, rhs) == [k |-> "AssignStmt", Lhs |-> lhs, Tok |-> tok, Rhs |-> rhs]
GoStmt(c) == [k |-> "GoStmt", Call |-> c]
DeferStmt(c) == [k |-> "DeferStmt", Call |-> c]
ReturnStmt(results) == [k |-> "ReturnStmt", Results |-> results]
BranchStmt == [k |-> "BranchStmt"]
EmptyStmt == [k |-> "EmptyStmt"]
BlockStmt(list) == [k |-> "BlockStmt", List |-> list]
IfStmt(init, cond, body, else) ==
    [k |-> "IfStmt", Init |-> init, Cond |-> cond, Body |-> body, Else |-> else]
CaseClause(case, list, body) ==
    [k |-> "CaseClause", Case |-> case, List |-> list, Body |-> body]
SwitchStmt(init, tag, body) == [k |-> "SwitchStmt", Init |-> init, Tag |-> tag, Body |-> body]
TypeSwitchStmt(init, assign, body) ==
    [k |-> "TypeSwitchStmt", Init |-> init, Assign |-> assign, Body |-> body]
CommClause(comm, body) == [k |-> "CommClause", Comm |-> comm, Body |-> body]
SelectStmt(body) == [k |-> "SelectStmt", Body |-> body]
ForStmt(init, cond, post, body) ==
    [k |-> "ForStmt", Init |-> init, Cond |-> cond, Post |-> post, Body |-> body]
RangeStmt(key, value, tok, x, body) ==
    [k |-> "RangeStmt", Key |-> key, Value |-> value, Tok |-> tok, X |-> x, Body |-> body]
FuncDecl(recv, name, type, body) ==
    [k |-> "FuncDecl", Recv |-> recv, Name |-> name, Type |-> type, Body |-> body]

(***************************************************************************)
(* The state a parse threads through (types.Config and Parser): the stack, *)
(* the contract table, lastConstType, the allocation table; the error it   *)
(* returns ("" is nil), whether it panicked, and the log of what it did to *)
(* the symbol tables.                                                      *)
(***************************************************************************)
PackageName == "pkg"


ParserState(st, ct, lct, alloc) ==
    [st |-> st, ct |-> ct, lct |-> lct, alloc |-> alloc,
     err |-> "", panicked |-> FALSE, log |-> <<>>, emitted |-> <<>>]

Failed(ps) == ps.err # "" \/ ps.panicked

Fail(ps, msg) == [ps EXCEPT !.err = msg]

Panic(ps) == [ps EXCEPT !.panicked = TRUE]

\* ContractTable.AddContract: appends
AddContract(ps, c) ==
    [ps EXCEPT !.ct.contracts = Append(@, c), !.emitted = Append(@, c)]

\* ContractTable.NewVirtualVar: the next id
NewVirtualVar(ps) ==
    [ps |-> [ps EXCEPT !.ct.virtual = @ + 1], y |-> VirtualVar(ps.ct.virtual)]

\* sp.SymbolTable.Push() / Pop() on the threaded state
PushScope(ps) == [ps EXCEPT !.st = Push(ps.st)]

PopScope(ps) ==
    With([r \in {Pop(ps.st)} |->
      [ps EXCEPT !.st = r.s, !.panicked = ps.panicked \/ r.panicked]])

\* the table at the top of the stack, for the log
TopTable(s) == IF s.Size > 0 THEN s.Tables[s.Size] ELSE NewTable

\* "if err != nil { return nil }", or a result that is not looked at: the
\* error ends there, and the log keeps where
Drop(ps, by) ==
    [ps EXCEPT !.log = Append(@, [ev |-> "dropped", by |-> by, sym |-> NoSymbol,
                                  level |-> ps.st.Size - 1, at |-> Len(ps.emitted),
                                  failed |-> TRUE,
                                  top |-> NewTable])]

\* the outcome of one loop iteration: the state and whether the handler returned
Step(ps, returned) == [ps |-> ps, returned |-> returned]

\* sp.SymbolTable.AddVariable(sDef), logged
SymAddVariable(ps, sDef, by) ==
    With([r \in {AddVariable(ps.st, sDef)} |->
      [failed |-> r.err,
       ps |-> [ps EXCEPT !.st = r.s,
                         !.log = Append(@, [ev |-> "AddVariable", by |-> by, sym |-> sDef,
                                            level |-> ps.st.Size - 1,
                                            at |-> Len(ps.emitted), failed |-> r.err,
                                            top |-> TopTable(r.s)])]]])

\* sp.SymbolTable.AddDataType(sDef), logged
SymAddDataType(ps, sDef, by) ==
    With([r \in {AddDataType(ps.st, sDef)} |->
      [failed |-> r.err,
       ps |-> [ps EXCEPT !.st = r.s,
                         !.log = Append(@, [ev |-> "AddDataType", by |-> by, sym |-> sDef,
                                            level |-> ps.st.Size - 1,
                                            at |-> Len(ps.emitted), failed |-> r.err,
                                            top |-> TopTable(r.s)])]]])

(***************************************************************************)
(* The type parser (collaborator): a type expression to a data type, the   *)
(* identifiers resolved in the stack.                                      *)
(***************************************************************************)
BuiltinTypes == {"int", "string", "bool", "rune", "error"}

RECURSIVE TypeParse(_, _)
RECURSIVE TypeParseFields(_, _, _)

TypeParseFields(st, fields, i) ==
    IF i > Len(fields) THEN [failed |-> FALSE, fields |-> <<>>]
    ELSE With([t \in {TypeParse(st, fields[i].Type)} |->
      IF t.failed THEN [failed |-> TRUE, fields |-> <<>>]
      ELSE With([rest \in {TypeParseFields(st, fields, i + 1)} |->
        IF rest.failed THEN rest
        ELSE [failed |-> FALSE,
              fields |-> (IF fields[i].Names = <<>> THEN <<[fname |-> "", ftype |-> t.def]>>
                          ELSE [j \in 1 .. Len(fields[i].Names) |->
                                  [fname |-> fields[i].Names[j].Name, ftype |-> t.def]])
                         \o rest.fields]])])

TypeParse(st, e) ==
    CASE e.k = "Ident" ->
           With([r \in {Lookup(st, e.Name)} |->
             IF ~r.err
             THEN IF r.st = DataTypeSymbol
                  THEN [failed |-> FALSE, def |-> Identifier(e.Name, r.def.Package)]
                  ELSE [failed |-> TRUE, def |-> NilType]
             ELSE IF e.Name \in BuiltinTypes
                  THEN [failed |-> FALSE, def |-> Identifier(e.Name, "builtin")]
                  ELSE [failed |-> TRUE, def |-> NilType]])
      [] e.k = "StarExpr" ->
           With([t \in {TypeParse(st, e.X)} |->
             IF t.failed THEN t ELSE [failed |-> FALSE, def |-> Pointer(t.def)]])
      [] e.k = "ArrayType" ->
           With([t \in {TypeParse(st, e.Elt)} |->
             IF t.failed THEN t ELSE [failed |-> FALSE, def |-> Slice(t.def)]])
      [] e.k = "ChanType" ->
           With([t \in {TypeParse(st, e.Value)} |->
             IF t.failed THEN t ELSE [failed |-> FALSE, def |-> Channel(t.def)]])
      [] e.k = "MapType" ->
           With([kt \in {TypeParse(st, e.Key)} |->
             IF kt.failed THEN kt
             ELSE With([vt \in {TypeParse(st, e.Value)} |->
               IF vt.failed THEN vt
               ELSE [failed |-> FALSE, def |-> Map(kt.def, vt.def)]])])
      [] e.k = "StructType" ->
           With([fs \in {TypeParseFields(st, e.Fields, 1)} |->
             IF fs.failed THEN [failed |-> TRUE, def |-> NilType]
             ELSE [failed |-> FALSE, def |-> Struct(fs.fields)]])
      [] e.k = "InterfaceType" -> [failed |-> FALSE, def |-> Interface]
      [] e.k = "FuncType" ->
           With([params \in {TypeParseFields(st, e.Params, 1)} |->
             IF params.failed THEN [failed |-> TRUE, def |-> NilType]
             ELSE With([rs \in {TypeParseFields(st, e.Results, 1)} |->
               IF rs.failed THEN [failed |-> TRUE, def |-> NilType]
               ELSE [failed |-> FALSE,
                     def |-> Function([i \in 1 .. Len(rs.fields) |-> rs.fields[i].ftype])]])])
      [] e.k = "SelectorExpr" ->
           \* a qualified identifier: the qualifier must resolve to a package
           With([r \in {Lookup(st, e.X.Name)} |->
             IF ~r.err /\ r.def.Def.k = "packagequalifier"
             THEN [failed |-> FALSE, def |-> Identifier(e.Sel, r.def.Def.qname)]
             ELSE [failed |-> TRUE, def |-> NilType]])
      [] OTHER -> [failed |-> TRUE, def |-> NilType]

\* SymbolsAccessor.FindFirstNonidDataType: follows identifiers to the first
\* data type that is not one; an identifier of the builtin package ends it
RECURSIVE FindFirstNonidDataType(_, _)
FindFirstNonidDataType(st, t) ==
    IF t.k # "identifier" THEN [failed |-> FALSE, def |-> t]
    ELSE IF t.package = "builtin" THEN [failed |-> FALSE, def |-> t]
    ELSE With([r \in {Lookup(st, t.def)} |->
      IF r.err \/ r.st # DataTypeSymbol \/ r.def.Def = NilType
      THEN [failed |-> TRUE, def |-> NilType]
      ELSE FindFirstNonidDataType(st, r.def.Def)])

(***************************************************************************)
(* The expression parser (collaborator): an expression to its attribute,   *)
(* the data types and the type variables of its results; it resolves the   *)
(* identifiers in the stack and appends its own contracts.                 *)
(***************************************************************************)
BoolType == Builtin("bool", FALSE)
IotaType == Builtin("iota", FALSE)

\* the functions of the pseudo-package C and the types of their results
CgoFunctions ==
    [f1 |-> <<Identifier("int", "builtin")>>,
     f2 |-> <<Identifier("int", "builtin"), Identifier("string", "builtin")>>]

ExprAttr(ps, types, tvs) ==
    [ps |-> ps, err |-> "", DataTypeList |-> types, TypeVarList |-> tvs]

ExprErr(ps, msg) ==
    [ps |-> ps, err |-> msg, DataTypeList |-> <<>>, TypeVarList |-> <<>>]

\* the data type behind one pointer and behind its identifiers
Underlying(st, t) ==
    FindFirstNonidDataType(st, IF t.k = "pointer" THEN t.elem ELSE t)

StructFieldType(t, name) ==
    LET hit == {i \in 1 .. Len(t.fields) : t.fields[i].fname = name}
    IN IF hit = {} THEN NilType ELSE t.fields[CHOOSE i \in hit : TRUE].ftype

RECURSIVE ExprParse(_, _)
RECURSIVE ExprParseList(_, _, _)

\* the arguments of a call, in order; stops at the first error
ExprParseList(ps, list, i) ==
    IF i > Len(list) THEN ExprErr(ps, "")
    ELSE With([a \in {ExprParse(ps, list[i])} |->
      IF a.err # "" THEN a ELSE ExprParseList(a.ps, list, i + 1)])

ExprParse(ps, e) ==
    CASE e.k = "Ident" ->
           IF e.Name = "iota"
           THEN ExprAttr(ps, <<IotaType>>, <<Constant("builtin", IotaType)>>)
           ELSE IF e.Name \in {"true", "false"}
           THEN ExprAttr(ps, <<BoolType>>, <<Constant("builtin", BoolType)>>)
           ELSE With([r \in {Lookup(ps.st, e.Name)} |->
             IF r.err THEN ExprErr(ps, "unresolved symbol")
             ELSE IF r.st = DataTypeSymbol THEN ExprErr(ps, "not an expression")
             ELSE ExprAttr(ps, <<r.def.Def>>, <<VariableFromSymbolDef(r.def)>>)])
      [] e.k = "BasicLit" ->
           With([t \in {Builtin(IF e.Kind = "INT" THEN "int" ELSE "string", TRUE)} |->
             ExprAttr(ps, <<t>>, <<Constant("builtin", t)>>)])
      [] e.k = "ParenExpr" -> ExprParse(ps, e.X)
      [] e.k = "StarExpr" ->
           With([x \in {ExprParse(ps, e.X)} |->
             IF x.err # "" THEN x
             ELSE IF Len(x.DataTypeList) # 1 \/ x.DataTypeList[1].k # "pointer"
             THEN ExprErr(x.ps, "not a pointer")
             ELSE With([v \in {NewVirtualVar(x.ps)} |->
               ExprAttr(AddContract(v.ps, IsDereferenceable(x.TypeVarList[1])),
                        <<x.DataTypeList[1].elem>>, <<v.y>>)])])
      [] e.k = "UnaryExpr" ->
           With([x \in {ExprParse(ps, e.X)} |->
             IF x.err # "" THEN x
             ELSE IF e.Op # TokARROW \/ Len(x.DataTypeList) # 1
                     \/ x.DataTypeList[1].k # "channel"
             THEN ExprErr(x.ps, "not a channel")
             ELSE With([v \in {NewVirtualVar(x.ps)} |->
               ExprAttr(AddContract(v.ps, IsReceiveableFrom(x.TypeVarList[1], v.y)),
                        <<x.DataTypeList[1].value>>, <<v.y>>)])])
      [] e.k = "SelectorExpr" /\ e.X = Ident("C", 0) ->
           \* a function of the pseudo-package C
           IF e.Sel \in DOMAIN CgoFunctions
           THEN ExprAttr(ps, <<Function(CgoFunctions[e.Sel])>>, <<Variable("C", e.Sel, 0)>>)
           ELSE ExprErr(ps, "unresolved symbol")
      [] e.k = "SelectorExpr" ->
           With([x \in {ExprParse(ps, e.X)} |->
             IF x.err # "" THEN x
             ELSE IF Len(x.DataTypeList) # 1 THEN ExprErr(x.ps, "not a single value")
             ELSE With([u \in {Underlying(x.ps.st, x.DataTypeList[1])} |->
               IF u.failed \/ u.def.k # "struct" THEN ExprErr(x.ps, "no such field")
               ELSE With([ft \in {StructFieldType(u.def, e.Sel)} |->
                 IF ft = NilType THEN ExprErr(x.ps, "no such field")
                 ELSE ExprAttr(AddContract(x.ps, HasField(x.TypeVarList[1], e.Sel)),
                               <<ft>>, <<Field(x.TypeVarList[1], e.Sel)>>)])])])
      [] e.k = "IndexExpr" ->
           With([x \in {ExprParse(ps, e.X)} |->
             IF x.err # "" THEN x
             ELSE With([i \in {ExprParse(x.ps, e.Index)} |->
               IF i.err # "" THEN i
               ELSE IF Len(x.DataTypeList) # 1 \/ Len(i.DataTypeList) # 1
               THEN ExprErr(i.ps, "not a single value")
               ELSE With([u \in {Underlying(i.ps.st, x.DataTypeList[1])} |->
                 IF u.failed \/ u.def.k \notin {"map", "slice", "array"}
                 THEN ExprErr(i.ps, "not indexable")
                 ELSE With([v \in {NewVirtualVar(i.ps)} |->
                   ExprAttr(AddContract(v.ps, IsIndexable(x.TypeVarList[1],
                                                          i.TypeVarList[1])),
                            <<IF u.def.k = "map" THEN u.def.valuetype ELSE u.def.elem>>,
                            <<v.y>>)])])])])
      [] e.k = "CallExpr" ->
           With([f \in {ExprParse(ps, e.Fun)} |->
             IF f.err # "" THEN f
             ELSE With([a \in {ExprParseList(f.ps, e.Args, 1)} |->
               IF a.err # "" THEN a
               ELSE IF Len(f.DataTypeList) # 1 \/ f.DataTypeList[1].k # "function"
               THEN ExprErr(a.ps, "not invocable")
               ELSE ExprAttr(AddContract(a.ps, IsInvocable(f.TypeVarList[1], Len(e.Args))),
                             f.DataTypeList[1].results,
                             [j \in 1 .. Len(f.DataTypeList[1].results) |->
                                 ReturnType(f.TypeVarList[1], j - 1)])])])
      [] e.k = "TypeAssertExpr" ->
           With([x \in {ExprParse(ps, e.X)} |->
             IF x.err # "" THEN x
             ELSE With([t \in {TypeParse(x.ps.st, e.Type)} |->
               IF t.failed THEN ExprErr(x.ps, "unresolved type")
               ELSE ExprAttr(x.ps, <<t.def>>, <<Constant(PackageName, t.def)>>)])])
      [] OTHER -> ExprErr(ps, "unsupported expression")

(***************************************************************************)
(* The statement parser (package statement)                                *)
(***************************************************************************)
FileName == "file.go"

FieldList(list) == [List |-> list]

RECURSIVE Parse(_, _)
RECURSIVE parseStmtList(_, _, _)

\* the loop "for _, statement := range list { if err := sp.Parse(statement) ... }"
parseStmtList(ps, list, i) ==
    IF i > Len(list) THEN ps
    ELSE With([r \in {Parse(ps, list[i])} |->
      IF Failed(r) THEN r ELSE parseStmtList(r, list, i + 1)])

\* AllocatedSymbolsTable.AddDataType(package, name, pos)
AllocAddDataType(ps, pkg, name, pos) ==
    [ps EXCEPT !.alloc = Append(@, [package |-> pkg, name |-> name, pos |-> pos])]

\* the receiver lookup that records the use whatever skip_allocated is
parseReceiverAlways(ps, receiver, skip_allocated) ==
    CASE receiver.k = "Ident" ->
           With([r \in {Lookup(ps.st, receiver.Name)} |->
             IF r.err THEN [ps |-> Fail(ps, "unresolved symbol"), def |-> NilType]
             ELSE [ps |-> IF TRUE
                          THEN AllocAddDataType(ps, r.def.Package, receiver.Name,
                                                receiver.NamePos)
                          ELSE ps,
                   def |-> Identifier(receiver.Name, PackageName)]])
      [] receiver.k = "StarExpr" ->
           IF receiver.X.k = "Ident"
           THEN With([r \in {Lookup(ps.st, receiver.X.Name)} |->
                  IF r.err THEN [ps |-> Fail(ps, "unresolved symbol"), def |-> NilType]
                  ELSE [ps |-> IF TRUE
                               THEN AllocAddDataType(ps, r.def.Package, receiver.X.Name,
                                                     receiver.X.NamePos)
                               ELSE ps,
                        def |-> Pointer(Identifier(receiver.X.Name, PackageName))]])
           ELSE [ps |-> Fail(ps, "receiver is not a pointer to an identifier"),
                 def |-> NilType]
      [] OTHER -> [ps |-> Fail(ps, "receiver is not an identifier"), def |-> NilType]

parseReceiver(ps, receiver, skip_allocated) ==
    CASE receiver.k = "Ident" ->
           With([r \in {Lookup(ps.st, receiver.Name)} |->
             IF r.err THEN [ps |-> Fail(ps, "unresolved symbol"), def |-> NilType]
             ELSE [ps |-> IF ~skip_allocated
                          THEN AllocAddDataType(ps, r.def.Package, receiver.Name,
                                                receiver.NamePos)
                          ELSE ps,
                   def |-> Identifier(receiver.Name, PackageName)]])
      [] receiver.k = "StarExpr" ->
           IF receiver.X.k = "Ident"
           THEN With([r \in {Lookup(ps.st, receiver.X.Name)} |->
                  IF r.err THEN [ps |-> Fail(ps, "unresolved symbol"), def |-> NilType]
                  ELSE [ps |-> IF ~skip_allocated
                               THEN AllocAddDataType(ps, r.def.Package, receiver.X.Name,
                                                     receiver.X.NamePos)
                               ELSE ps,
                        def |-> Pointer(Identifier(receiver.X.Name, PackageName))]])
           ELSE [ps |-> Fail(ps, "receiver is not a pointer to an identifier"),
                 def |-> NilType]
      [] OTHER -> [ps |-> Fail(ps, "receiver is not an identifier"), def |-> NilType]

ParseFuncDecl(ps, d) ==
    With([funcDef \in {TypeParse(ps.st, d.Type)} |->
      IF funcDef.failed THEN [ps |-> Fail(ps, "unresolved type"), def |-> NilType]
      ELSE IF d.Recv = Nil THEN [ps |-> ps, def |-> funcDef.def]
      ELSE IF Len(d.Recv.List) # 1 THEN [ps |-> Fail(ps, "no receiver"), def |-> NilType]
      ELSE IF Len(d.Recv.List[1].Names) > 2
      THEN [ps |-> Fail(ps, "receiver is not a single parameter"), def |-> NilType]
      ELSE With([rec \in {parseReceiver(ps, d.Recv.List[1].Type, FALSE)} |->
        IF rec.ps.err # "" THEN rec
        ELSE [ps |-> rec.ps, def |-> Method(funcDef.def, rec.def)]])])

RECURSIVE headNames(_, _, _, _)
\* "for _, name := range field.Names": a contract and a pending symbol per name
headNames(r, names, def, i) ==
    IF i > Len(names) THEN r
    ELSE LET sDef == SymbolDef(names[i].Name, "", def, names[i].NamePos)
         IN headNames([ps |-> AddContract(r.ps,
                                PropagatesTo(MakeConstant(PackageName, def),
                                             VariableFromSymbolDef(sDef), sDef.Def)),
                       sDefs |-> Append(r.sDefs, sDef)],
                      names, def, i + 1)

RECURSIVE headFields(_, _, _, _)
\* "for _, field := range List": type-parse the field, then its names
headFields(r, fields, msg, i) ==
    IF i > Len(fields) THEN r
    ELSE With([def \in {TypeParse(r.ps.st, fields[i].Type)} |->
      IF def.failed THEN [r EXCEPT !.ps = Fail(r.ps, msg)]
      ELSE headFields(headNames(r, fields[i].Names, def.def, 1), fields, msg, i + 1)])

RECURSIVE addVariables(_, _, _)
\* "for _, sDef := range sDefs { sp.SymbolTable.AddVariable(sDef) }"
addVariables(ps, sDefs, i) ==
    IF i > Len(sDefs) THEN ps
    ELSE addVariables(SymAddVariable(ps, sDefs[i], "head").ps, sDefs, i + 1)

headReceiver(ps, funcDecl) ==
    IF funcDecl.Recv = Nil THEN ps
    ELSE IF Len(funcDecl.Recv.List) # 1 THEN Fail(ps, "no receiver")
    ELSE IF Len(funcDecl.Recv.List[1].Names) > 2
    THEN Fail(ps, "receiver is not a single parameter")
    ELSE With([rec \in {parseReceiver(ps, funcDecl.Recv.List[1].Type, TRUE)} |->
      IF rec.ps.err # "" THEN Fail(rec.ps, "sp.parseReceiver")
      ELSE IF funcDecl.Recv.List[1].Names # <<>>
      THEN LET name == funcDecl.Recv.List[1].Names[1]
               sDef == SymbolDef(name.Name, "", rec.def, name.NamePos)
           IN SymAddVariable(
                  AddContract(rec.ps,
                      PropagatesTo(MakeConstant(PackageName, rec.def),
                                   VariableFromSymbolDef(sDef), sDef.Def)),
                  sDef, "receiver").ps
      ELSE rec.ps])

\* the header binder that stores the parameters before it parses the results
parseFuncHeadVariablesEager(ps, funcDecl) ==
    With([r \in {headReceiver(ps, funcDecl)} |->
      IF r.err # "" THEN r
      ELSE With([params \in {headFields([ps |-> r, sDefs |-> <<>>], funcDecl.Type.Params,
                           "sp.TypeParser.Parse Params", 1)} |->
        IF params.ps.err # "" THEN params.ps
        ELSE With([results \in {headFields([ps |-> addVariables(params.ps, params.sDefs, 1),
                                            sDefs |-> <<>>],
                                           funcDecl.Type.Results,
                                           "sp.TypeParser.Parse Results", 1)} |->
          IF results.ps.err # "" THEN results.ps
          ELSE addVariables(results.ps, results.sDefs, 1)])])])

parseFuncHeadVariables(ps, funcDecl) ==
    With([r \in {headReceiver(ps, funcDecl)} |->
      IF r.err # "" THEN r
      ELSE With([params \in {headFields([ps |-> r, sDefs |-> <<>>], funcDecl.Type.Params,
                           "sp.TypeParser.Parse Params", 1)} |->
        IF params.ps.err # "" THEN params.ps
        ELSE With([results \in {headFields(params, funcDecl.Type.Results,
                             "sp.TypeParser.Parse Results", 1)} |->
          IF results.ps.err # "" THEN results.ps
          ELSE addVariables(results.ps, results.sDefs, 1)])])])

\* ParseFuncBody that leaves the header scope on the stack when the header fails
ParseFuncBodyNoPop(ps, funcDecl) ==
    With([head \in {parseFuncHeadVariables(PushScope(ps), funcDecl)} |->
      IF head.err # "" THEN Fail(head, "sp.ParseFuncBody")
      ELSE PopScope(PopScope(IF funcDecl.Body = Nil THEN PushScope(head)
                             ELSE parseStmtList(PushScope(head), funcDecl.Body.List, 1)))])

\* ParseFuncBody that takes back the contracts of a body that failed
ParseFuncBodyRollback(ps, funcDecl) ==
    With([head \in {parseFuncHeadVariables(PushScope(ps), funcDecl)} |->
      IF head.err # "" THEN [Fail(PopScope(head), "sp.ParseFuncBody") EXCEPT !.ct = ps.ct]
      ELSE With([body \in {PopScope(PopScope(
                              IF funcDecl.Body = Nil THEN PushScope(head)
                              ELSE parseStmtList(PushScope(head), funcDecl.Body.List, 1)))} |->
        IF body.err # "" THEN [body EXCEPT !.ct = ps.ct] ELSE body])])

ParseFuncBody(ps, funcDecl) ==
    With([head \in {parseFuncHeadVariables(PushScope(ps), funcDecl)} |->
      IF head.err # "" THEN Fail(PopScope(head), "sp.ParseFuncBody")
      ELSE PopScope(PopScope(IF funcDecl.Body = Nil THEN PushScope(head)
                             ELSE parseStmtList(PushScope(head), funcDecl.Body.List, 1)))])

IsIota(t) == t.k = "builtin" /\ t.def = "iota"

\* the contract of a name and its value, always a PropagatesTo
valueContractPropagates(typeDef, x, sDef) ==
    PropagatesTo(x, VariableFromSymbolDef(sDef), sDef.Def)

\* the contract of a name and its value: PropagatesTo without a type,
\* IsCompatibleWith with one
valueContract(typeDef, x, sDef) ==
    IF typeDef = NilType
    THEN PropagatesTo(x, VariableFromSymbolDef(sDef), sDef.Def)
    ELSE IsCompatibleWith(x, VariableFromSymbolDef(sDef), sDef.Def, FALSE)

RECURSIVE vsTuple(_, _, _, _, _)
\* ParseValueSpec, a single value with as many results as there are names
vsTuple(r, spec, typeDef, attr, i) ==
    IF i > Len(spec.Names) THEN r
    ELSE IF spec.Names[i].Name = "_" THEN vsTuple(r, spec, typeDef, attr, i + 1)
    ELSE LET pkg == IF CurrentLevel(r.ps.st) > 0 THEN "" ELSE PackageName
             sDef == SymbolDef(spec.Names[i].Name, pkg,
                               IF typeDef = NilType THEN attr.DataTypeList[i] ELSE typeDef,
                               spec.Names[i].NamePos)
             c == valueContract(typeDef, attr.TypeVarList[i], sDef)
         IN vsTuple([ps |-> AddContract(r.ps, c), symbolsDef |-> Append(r.symbolsDef, sDef)],
                    spec, typeDef, attr, i + 1)

\* the type of a name without a value, always the one of the last constant
trailingTypeOfLast(typeDef, lct) ==
    lct

\* the type of a name without a value: the type of the spec, or without one
\* lastConstType
trailingType(typeDef, lct) ==
    IF typeDef = NilType THEN lct ELSE typeDef

RECURSIVE vsTrailing(_, _, _, _)
\* ParseValueSpec, the names that have no value: "for i := vLen; i < nLen; i++"
vsTrailing(r, spec, typeDef, i) ==
    IF i > Len(spec.Names) THEN r
    ELSE IF typeDef = NilType /\ r.ps.lct = NilType
    THEN [r EXCEPT !.ps = Fail(r.ps, "No type in ValueSpec declaration"), !.symbolsDef = <<>>]
    ELSE LET td == trailingType(typeDef, r.ps.lct)
         IN IF spec.Names[i].Name = "_" THEN vsTrailing(r, spec, td, i + 1)
            ELSE vsTrailing([r EXCEPT !.symbolsDef =
                                Append(@, SymbolDef(spec.Names[i].Name, PackageName, td,
                                                    spec.Names[i].NamePos))],
                            spec, td, i + 1)

\* the type of an untyped constant, iota left as it is
untypedConstKeepsIota(t) ==
    t

\* the type of an untyped constant: "if an untyped const is iota, it defaults
\* to int", still untyped
untypedConst(t) ==
    IF IsIota(t) THEN Builtin("int", TRUE) ELSE t

RECURSIVE vsElems(_, _, _, _)
\* ParseValueSpec, value by value: "for i := 0; i < vLen; i++"
vsElems(r, spec, typeDef, i) ==
    IF i > Len(spec.Values) THEN vsTrailing(r, spec, typeDef, i)
    ELSE With([attr \in {ExprParse(r.ps, spec.Values[i])} |->
      IF attr.err # "" THEN [ps |-> Fail(attr.ps, attr.err), symbolsDef |-> <<>>]
      ELSE IF Len(attr.DataTypeList) # 1
      THEN [ps |-> Fail(attr.ps, "Expecting a single expression"), symbolsDef |-> <<>>]
      ELSE IF spec.Names[i].Name = "_"
      THEN vsElems([r EXCEPT !.ps = attr.ps], spec, typeDef, i + 1)
      ELSE IF typeDef # NilType
      THEN LET sDef == SymbolDef(spec.Names[i].Name, PackageName, typeDef,
                                 spec.Names[i].NamePos)
               c == IsCompatibleWith(attr.TypeVarList[1], VariableFromSymbolDef(sDef),
                                     sDef.Def, FALSE)
           IN vsElems([ps |-> IF IsIota(attr.DataTypeList[1])
                              THEN [AddContract(attr.ps, c) EXCEPT !.lct = typeDef]
                              ELSE AddContract(attr.ps, c),
                       symbolsDef |-> Append(r.symbolsDef, sDef)],
                      spec, typeDef, i + 1)
      ELSE LET t == attr.DataTypeList[1]
               \* an untyped iota defaults to int: the builtin is rewritten in place
               def == untypedConst(t)
               sDef == SymbolDef(spec.Names[i].Name, PackageName, def,
                                 spec.Names[i].NamePos)
               c == PropagatesTo(attr.TypeVarList[1], VariableFromSymbolDef(sDef), sDef.Def)
           IN vsElems([ps |-> AddContract(IF t.k = "builtin"
                                          THEN [attr.ps EXCEPT !.lct = def] ELSE attr.ps, c),
                       symbolsDef |-> Append(r.symbolsDef, sDef)],
                      spec, typeDef, i + 1)])

ParseValueSpec(ps, spec) ==
    LET none == [ps |-> ps, symbolsDef |-> <<>>]
    IN With([td \in {IF spec.Type # Nil THEN TypeParse(ps.st, spec.Type)
                     ELSE [failed |-> FALSE, def |-> NilType]} |->
         IF td.failed THEN [none EXCEPT !.ps = Fail(ps, "unresolved type")]
         ELSE IF Len(spec.Values) # 1
         THEN IF Len(spec.Names) < Len(spec.Values)
              THEN [none EXCEPT !.ps = Fail(ps, "less identifiers than expressions")]
              ELSE vsElems(none, spec, td.def, 1)
         ELSE With([attr \in {ExprParse(ps, spec.Values[1])} |->
           IF attr.err # "" THEN [none EXCEPT !.ps = Fail(attr.ps, attr.err)]
           ELSE IF attr.DataTypeList = <<>> THEN [none EXCEPT !.ps = Panic(attr.ps)]
           ELSE IF ~IsIota(attr.DataTypeList[1])
           THEN IF Len(spec.Names) # Len(attr.DataTypeList)
                THEN [none EXCEPT !.ps = Fail(attr.ps, "different number of identifiers")]
                ELSE vsTuple([none EXCEPT !.ps = attr.ps], spec, td.def, attr, 1)
           ELSE IF Len(spec.Names) < Len(spec.Values)
           THEN [none EXCEPT !.ps = Fail(attr.ps, "less identifiers than expressions")]
           ELSE vsElems([none EXCEPT !.ps = attr.ps], spec, td.def, 1)])])

RECURSIVE addDefs(_, _, _)
\* parseDeclStmt: "for _, def := range defs": the first duplicate ends the
\* statement with a nil error
addDefs(ps, defs, i) ==
    IF i > Len(defs) THEN [ps |-> ps, stop |-> FALSE]
    ELSE With([a \in {SymAddVariable(ps, defs[i], "decl")} |->
      IF a.failed THEN [ps |-> Drop(a.ps, "decl"), stop |-> TRUE]
      ELSE addDefs(a.ps, defs, i + 1)])

\* the type spec inserted once, after its type expression is parsed
declTypeSpecOnePhase(ps, spec) ==
    With([typeDef \in {TypeParse(ps.st, spec.Type)} |->
      IF typeDef.failed THEN Fail(ps, "unresolved type")
      ELSE With([second \in {SymAddDataType(ps,
                               SymbolDef(spec.Name.Name, PackageName, typeDef.def, 0),
                               "decl")} |->
        IF second.failed THEN Fail(second.ps, "symbol already exists") ELSE second.ps])])

declTypeSpec(ps, spec) ==
    With([first \in {SymAddDataType(ps, SymbolDef(spec.Name.Name, PackageName, NilType, 0),
                                    "decl")} |->
      IF first.failed THEN Fail(first.ps, "symbol already exists")
      ELSE With([typeDef \in {TypeParse(first.ps.st, spec.Type)} |->
        IF typeDef.failed THEN Fail(first.ps, "unresolved type")
        ELSE With([second \in {SymAddDataType(first.ps,
                                 SymbolDef(spec.Name.Name, PackageName, typeDef.def, 0),
                                 "decl")} |->
          IF second.failed THEN Fail(second.ps, "symbol already exists") ELSE second.ps])])])

RECURSIVE declSpecs(_, _, _)
\* parseDeclStmt: "for _, spec := range decl.Specs"
declSpecs(ps, specs, i) ==
    IF i > Len(specs) THEN ps
    ELSE IF specs[i].k = "ValueSpec"
    THEN With([r \in {ParseValueSpec(ps, specs[i])} |->
           IF Failed(r.ps) THEN r.ps
           ELSE With([a \in {addDefs(r.ps, r.symbolsDef, 1)} |->
                  IF a.stop THEN a.ps ELSE declSpecs(a.ps, specs, i + 1)])])
    ELSE IF specs[i].k = "TypeSpec"
    THEN With([r \in {declTypeSpec(ps, specs[i])} |->
      IF Failed(r) THEN r ELSE declSpecs(r, specs, i + 1)])
    ELSE Panic(ps)

parseDeclStmt(ps, statement) == declSpecs(ps, statement.Specs, 1)

\* "attr.TypeVarList[0]" of an expression without a result: index out of range
NoResult(attr) == attr.TypeVarList = <<>>

\* an expression parsed for its contracts only: "_, err := sp.ExprParser.Parse(x)"
parseExprOnly(ps, x) ==
    With([a \in {ExprParse(ps, x)} |-> IF a.err # "" THEN Fail(a.ps, a.err) ELSE a.ps])

parseLabeledStmt(ps, statement) == Parse(ps, statement.Stmt)

parseExprStmt(ps, statement) == parseExprOnly(ps, statement.X)

sendContract(ps, chan, value) ==
    With([chanAttr \in {ExprParse(ps, chan)} |->
      IF chanAttr.err # "" THEN Fail(chanAttr.ps, chanAttr.err)
      ELSE With([valueAttr \in {ExprParse(chanAttr.ps, value)} |->
        IF valueAttr.err # "" THEN Fail(valueAttr.ps, valueAttr.err)
        ELSE IF NoResult(valueAttr) \/ NoResult(chanAttr) THEN Panic(valueAttr.ps)
        ELSE AddContract(valueAttr.ps,
                         IsSendableTo(valueAttr.TypeVarList[1], chanAttr.TypeVarList[1]))])])

parseSendStmt(ps, statement) == sendContract(ps, statement.Chan, statement.Value)

parseIncDecStmt(ps, statement) ==
    With([attr \in {ExprParse(ps, statement.X)} |->
      IF attr.err # "" THEN Fail(attr.ps, attr.err)
      ELSE IF NoResult(attr) THEN Panic(attr.ps)
      ELSE AddContract(attr.ps, IsIncDecable(attr.TypeVarList[1]))])

parseGoStmt(ps, statement) == parseExprOnly(ps, statement.Call)

parseDeferStmt(ps, statement) == parseExprOnly(ps, statement.Call)

parseBranchStmt(ps, statement) == ps

RECURSIVE parseResults(_, _, _)
\* Parse, case *ast.ReturnStmt
parseResults(ps, results, i) ==
    IF i > Len(results) THEN ps
    ELSE With([r \in {parseExprOnly(ps, results[i])} |->
      IF Failed(r) THEN r ELSE parseResults(r, results, i + 1)])

RECURSIVE StripParens(_)
StripParens(e) == IF e.k = "ParenExpr" THEN StripParens(e.X) ELSE e

RhsValue(ps, def, tv) == [ps |-> ps, def |-> def, tv |-> tv]

\* parseAssignStmt: the general rhsIndexer and the three it is replaced by
rhsGeneral(ps, statement, i) ==
    With([defAttr \in {ExprParse(ps, statement.Rhs[i])} |->
      IF defAttr.err # ""
      THEN RhsValue(Fail(defAttr.ps, "Error when parsing Rhs"), NilType, Nil)
      ELSE IF Len(defAttr.DataTypeList) # 1
      THEN RhsValue(Fail(defAttr.ps, "does not return a single result"), NilType, Nil)
      ELSE RhsValue(defAttr.ps, defAttr.DataTypeList[1], defAttr.TypeVarList[1])])

\* the index function of a call that does not serve the slot after the
\* results
rhsCallExprNoCgo(ps, mode, i) ==
    IF i - 1 < mode.callExprDefLen
    THEN RhsValue(ps, mode.attr.DataTypeList[i], mode.attr.TypeVarList[i])
    ELSE RhsValue([Panic(ps) EXCEPT !.err = "rhsIndexer: out of range"], NilType, Nil)

\* the index function of a call that does not serve its last result
rhsCallExprOffByOne(ps, mode, i) ==
    IF i - 1 < mode.callExprDefLen - 1
    THEN RhsValue(ps, mode.attr.DataTypeList[i], mode.attr.TypeVarList[i])
    ELSE IF i - 1 = mode.callExprDefLen /\ mode.isCgo
    THEN RhsValue(ps, Builtin("error", FALSE), CGO)
    ELSE RhsValue([Panic(ps) EXCEPT !.err = "rhsIndexer: out of range"], NilType, Nil)

rhsCallExpr(ps, mode, i) ==
    IF i - 1 < mode.callExprDefLen
    THEN RhsValue(ps, mode.attr.DataTypeList[i], mode.attr.TypeVarList[i])
    ELSE IF i - 1 = mode.callExprDefLen /\ mode.isCgo
    THEN RhsValue(ps, Builtin("error", FALSE), CGO)
    ELSE RhsValue([Panic(ps) EXCEPT !.err = "rhsIndexer: out of range"], NilType, Nil)

\* the index function that parses the index expression for the second slot
\* as well
rhsIndexExprParsedAgain(ps, statement, i) ==
    IF i = 1 \/ i = 2
    THEN With([defAttr \in {ExprParse(ps, statement.Rhs[1])} |->
           IF defAttr.err # ""
           THEN RhsValue(Fail(defAttr.ps, "Error when parsing Rhs"), NilType, Nil)
           ELSE IF defAttr.DataTypeList = <<>>
           THEN RhsValue(Panic(defAttr.ps), NilType, Nil)
           ELSE IF Len(defAttr.DataTypeList) # 1
           THEN RhsValue(Fail(defAttr.ps, "does not return a single result"), NilType, Nil)
           ELSE IF i = 1
           THEN RhsValue(defAttr.ps, defAttr.DataTypeList[1], defAttr.TypeVarList[1])
           ELSE RhsValue(defAttr.ps, BoolType, MakeConstant(PackageName, BoolType))])
    ELSE RhsValue(Fail(ps, "Rhs index out of range"), NilType, Nil)

rhsIndexExpr(ps, statement, i) ==
    IF i = 1
    THEN With([defAttr \in {ExprParse(ps, statement.Rhs[i])} |->
           IF defAttr.err # ""
           THEN RhsValue(Fail(defAttr.ps, "Error when parsing Rhs"), NilType, Nil)
           ELSE IF defAttr.DataTypeList = <<>>
           THEN RhsValue(Panic(defAttr.ps), NilType, Nil)
           ELSE IF Len(defAttr.DataTypeList) # 1
           THEN RhsValue(Fail(defAttr.ps, "does not return a single result"), NilType, Nil)
           ELSE RhsValue(defAttr.ps, defAttr.DataTypeList[1], defAttr.TypeVarList[1])])
    ELSE IF i = 2
    THEN RhsValue(ps, BoolType, MakeConstant(PackageName, BoolType))
    ELSE RhsValue(Fail(ps, "Rhs index out of range"), NilType, Nil)

\* the index function of a type assertion that emits no contract
rhsTypeAssertExprSilent(ps, mode, i) ==
    IF i = 1
    THEN RhsValue(ps, mode.typeDef, MakeConstant(PackageName, mode.typeDef))
    ELSE IF i = 2
    THEN RhsValue(ps, BoolType, MakeConstant(PackageName, BoolType))
    ELSE RhsValue(Fail(ps, "Rhs index out of range"), NilType, Nil)

rhsTypeAssertExpr(ps, mode, i) ==
    IF i = 1
    THEN LET y == MakeConstant(PackageName, mode.typeDef)
         IN RhsValue(AddContract(ps, IsCompatibleWith(mode.attr.TypeVarList[1], y,
                                                      mode.typeDef, FALSE)),
                     mode.typeDef, y)
    ELSE IF i = 2
    THEN RhsValue(ps, BoolType, MakeConstant(PackageName, BoolType))
    ELSE RhsValue(Fail(ps, "Rhs index out of range"), NilType, Nil)

rhsIndexer(ps, statement, mode, i) ==
    CASE mode.kind = "general" -> rhsGeneral(ps, statement, i)
      [] mode.kind = "CallExpr" -> rhsCallExpr(ps, mode, i)
      [] mode.kind = "IndexExpr" -> rhsIndexExpr(ps, statement, i)
      [] mode.kind = "TypeAssertExpr" -> rhsTypeAssertExpr(ps, mode, i)

RhsMode(kind, attr, isCgo, typeDef) ==
    [kind |-> kind, attr |-> attr, isCgo |-> isCgo, typeDef |-> typeDef,
     callExprDefLen |-> Len(attr.DataTypeList)]

\* parseAssignStmt: the switch on Lhs[i] (parentheses stripped)
assignLhs(ps, statement, lhsExpr, rhs) ==
    CASE lhsExpr.k = "Ident" ->
           IF lhsExpr.Name = "_" THEN Step(ps, FALSE)
           ELSE IF statement.Tok = TokDEFINE
           THEN LET sDef == SymbolDef(lhsExpr.Name, PackageName, rhs.def, lhsExpr.NamePos)
                IN Step(AddContract(SymAddVariable(ps, sDef, "assign").ps,
                                    PropagatesTo(rhs.tv, VariableFromSymbolDef(sDef), sDef.Def)),
                        FALSE)
           ELSE With([r \in {LookupVariable(ps.st, lhsExpr.Name)} |->
             IF r.err THEN Step(Fail(ps, "unresolved symbol"), TRUE)
             ELSE Step(AddContract(ps, IsCompatibleWith(rhs.tv, VariableFromSymbolDef(r.def),
                                                        r.def.Def, FALSE)),
                       FALSE)])
      [] lhsExpr.k \in {"SelectorExpr", "StarExpr", "IndexExpr"} ->
           With([attr \in {ExprParse(ps, lhsExpr)} |->
             IF attr.err # "" THEN Step(Drop(attr.ps, "assign"), TRUE)
             ELSE IF NoResult(attr) THEN Step(Panic(attr.ps), TRUE)
             ELSE Step(AddContract(attr.ps, IsCompatibleWith(rhs.tv, attr.TypeVarList[1],
                                                             attr.DataTypeList[1], FALSE)),
                       FALSE)])
      [] OTHER -> Step(Fail(ps, "Lhs of an assignment is not recognized"), TRUE)

RECURSIVE assignLoop(_, _, _, _)
\* parseAssignStmt: for i := 0; i < exprsSize; i++
assignLoop(ps, statement, mode, i) ==
    IF i > Len(statement.Lhs) THEN ps
    ELSE With([rhs \in {rhsIndexer(ps, statement, mode, i)} |->
      IF Failed(rhs.ps) THEN rhs.ps
      ELSE With([it \in {assignLhs(rhs.ps, statement, StripParens(statement.Lhs[i]), rhs)} |->
        IF it.returned \/ Failed(it.ps) THEN it.ps
        ELSE assignLoop(it.ps, statement, mode, i + 1)])])

IsCgoCall(typeExpr) ==
    /\ typeExpr.Fun.k = "SelectorExpr"
    /\ typeExpr.Fun.X.k = "Ident"
    /\ typeExpr.Fun.X.Name = "C"

GeneralMode(ps) == RhsMode("general", ExprErr(ps, ""), FALSE, NilType)

parseAssignStmt(ps, statement) ==
    LET exprsSize == Len(statement.Lhs)
        rExprSize == Len(statement.Rhs)
        typeExpr == statement.Rhs[1]
    IN IF exprsSize = rExprSize THEN assignLoop(ps, statement, GeneralMode(ps), 1)
       ELSE IF rExprSize # 1 THEN Fail(ps, "Number of expressions differs")
       ELSE CASE typeExpr.k = "CallExpr" ->
                   With([callExprDefAttr \in {ExprParse(ps, typeExpr)} |->
                     LET callExprDefLen == Len(callExprDefAttr.DataTypeList)
                         isCgo == IsCgoCall(typeExpr)
                     IN IF callExprDefAttr.err # ""
                        THEN Fail(callExprDefAttr.ps, callExprDefAttr.err)
                        ELSE IF exprsSize # callExprDefLen
                                /\ (~isCgo \/ exprsSize # callExprDefLen + 1)
                        THEN Fail(callExprDefAttr.ps, "Number of results differs")
                        ELSE assignLoop(callExprDefAttr.ps, statement,
                                        RhsMode("CallExpr", callExprDefAttr, isCgo, NilType), 1)])
              [] typeExpr.k = "IndexExpr" ->
                   IF exprsSize # 2 THEN Fail(ps, "Expecting two expression")
                   ELSE assignLoop(ps, statement,
                                   RhsMode("IndexExpr", ExprErr(ps, ""), FALSE, NilType), 1)
              [] typeExpr.k = "TypeAssertExpr" ->
                   IF exprsSize # 2 THEN Fail(ps, "Expecting two expression")
                   ELSE With([xDefAttr \in {ExprParse(ps, typeExpr.X)} |->
                          IF xDefAttr.err # "" THEN Fail(xDefAttr.ps, xDefAttr.err)
                          ELSE IF Len(xDefAttr.DataTypeList) # 1
                          THEN Fail(xDefAttr.ps, "not a single expression")
                          ELSE With([typeDef \in {TypeParse(xDefAttr.ps.st, typeExpr.Type)} |->
                                 IF typeDef.failed THEN Fail(xDefAttr.ps, "type")
                                 ELSE assignLoop(xDefAttr.ps, statement,
                                                 RhsMode("TypeAssertExpr", xDefAttr, FALSE,
                                                         typeDef.def), 1)])])
              [] OTHER -> Panic(ps)

RECURSIVE PopN(_, _)
\* the deferred sp.SymbolTable.Pop() calls of a handler, run at its return
PopN(ps, n) == IF n = 0 THEN ps ELSE PopN(PopScope(ps), n - 1)

\* "if x.Init != nil { Push; defer Pop; Parse(x.Init) }"
parseInit(ps, init) == IF init = Nil THEN ps ELSE Parse(PushScope(ps), init)

InitPops(init) == IF init = Nil THEN 0 ELSE 1

\* a clause body: sp.Parse(&ast.BlockStmt{List: body}) unless it is empty
parseClauseBody(ps, body) == IF body = <<>> THEN ps ELSE Parse(ps, BlockStmt(body))

RECURSIVE switchCaseExprs(_, _, _, _)
\* parseSwitchStmt: for _, caseExpr := range caseStmt.List
switchCaseExprs(ps, list, stmtTagTypeVar, i) ==
    IF i > Len(list) THEN Step(ps, FALSE)
    ELSE With([caseAttr \in {ExprParse(ps, list[i])} |->
      IF caseAttr.err # "" THEN Step(Drop(caseAttr.ps, "switch"), TRUE)
      ELSE IF NoResult(caseAttr) THEN Step(Panic(caseAttr.ps), TRUE)
      ELSE switchCaseExprs(
             AddContract(caseAttr.ps,
                         IsCompatibleWith(caseAttr.TypeVarList[1], stmtTagTypeVar,
                                          NilType, FALSE)),
             list, stmtTagTypeVar, i + 1)])

RECURSIVE switchClauses(_, _, _, _)
\* parseSwitchStmt: for _, stmt := range statement.Body.List
switchClauses(ps, list, stmtTagTypeVar, i) ==
    IF i > Len(list) THEN ps
    ELSE IF list[i].k # "CaseClause" THEN Fail(ps, "Expected *ast.CaseClause")
    ELSE With([exprs \in {switchCaseExprs(ps, list[i].List, stmtTagTypeVar, 1)} |->
      IF exprs.returned THEN exprs.ps
      ELSE With([body \in {parseClauseBody(exprs.ps, list[i].Body)} |->
        IF Failed(body) THEN body
        ELSE switchClauses(body, list, stmtTagTypeVar, i + 1)])])

parseSwitchStmt(ps, statement) ==
    PopN(With([init \in {parseInit(ps, statement.Init)} |->
           IF Failed(init) THEN init
           ELSE IF statement.Tag = Nil
           THEN switchClauses(init, statement.Body.List,
                              MakeConstant("builtin", BoolType), 1)
           ELSE With([attr \in {ExprParse(init, statement.Tag)} |->
                  IF attr.err # "" THEN Fail(attr.ps, attr.err)
                  ELSE IF NoResult(attr) THEN Panic(attr.ps)
                  ELSE switchClauses(attr.ps, statement.Body.List,
                                     attr.TypeVarList[1], 1)])]),
         InitPops(statement.Init))

\* the guard of a type switch: the state, whether the handler returned, the
\* scopes the guard pushed, rhsIdentifier (Nil if none) and typeTypeVar
Guard(ps, returned, pops, rhsIdentifier, typeTypeVar) ==
    [ps |-> ps, returned |-> returned, pops |-> pops,
     rhsIdentifier |-> rhsIdentifier, typeTypeVar |-> typeTypeVar]

\* parseTypeSwitchStmt: switch assignStmt := statement.Assign.(type)
typeSwitchGuard(ps, assignStmt) ==
    CASE assignStmt.k = "AssignStmt" ->
           LET typeAssert == assignStmt.Rhs[1]
               ident == assignStmt.Lhs[1]
           IN IF Len(assignStmt.Lhs) # 1
              THEN Guard(Fail(PushScope(ps), "LHS"), TRUE, 1, Nil, Nil)
              ELSE IF Len(assignStmt.Rhs) # 1
              THEN Guard(Fail(PushScope(ps), "RHS"), TRUE, 1, Nil, Nil)
              ELSE IF typeAssert.k # "TypeAssertExpr"
              THEN Guard(Fail(PushScope(ps), "Expecting type assert"), TRUE, 1, Nil, Nil)
              ELSE With([typeAttr \in {ExprParse(PushScope(ps), typeAssert.X)} |->
                     IF typeAttr.err # ""
                     THEN Guard(Drop(typeAttr.ps, "typeswitch"), TRUE, 1, Nil, Nil)
                     ELSE IF NoResult(typeAttr) THEN Guard(Panic(typeAttr.ps), TRUE, 1, Nil, Nil)
                     ELSE IF ident.k # "Ident"
                     THEN Guard(Fail(typeAttr.ps, "Expecting identifier"), TRUE, 1, Nil, Nil)
                     ELSE Guard(typeAttr.ps, FALSE, 1,
                                IF ident.Name # "_" THEN Identifier(ident.Name, PackageName)
                                ELSE Nil,
                                typeAttr.TypeVarList[1])])
      [] assignStmt.k = "ExprStmt" ->
           IF assignStmt.X.k # "TypeAssertExpr"
           THEN Guard(Fail(ps, "Expecting type assert"), TRUE, 0, Nil, Nil)
           ELSE With([typeAttr \in {ExprParse(ps, assignStmt.X.X)} |->
                  IF typeAttr.err # ""
                  THEN Guard(Drop(typeAttr.ps, "typeswitch"), TRUE, 0, Nil, Nil)
                  ELSE IF NoResult(typeAttr) THEN Guard(Panic(typeAttr.ps), TRUE, 0, Nil, Nil)
                  ELSE Guard(typeAttr.ps, FALSE, 0, Nil, typeAttr.TypeVarList[1])])
      [] OTHER -> Guard(Fail(ps, "Unsupported statement in type switch"), TRUE, 0, Nil, Nil)

RECURSIVE typeCaseList(_, _, _, _)
\* parseTypeSwitchStmt: the case types of a clause with none or several
typeCaseList(ps, list, typeTypeVar, i) ==
    IF i > Len(list) THEN ps
    ELSE With([rhsType \in {TypeParse(ps.st, list[i])} |->
      IF rhsType.failed THEN Fail(ps, "type")
      ELSE typeCaseList(
             AddContract(ps, IsCompatibleWith(MakeConstant(PackageName, rhsType.def),
                                              typeTypeVar, NilType, TRUE)),
             list, typeTypeVar, i + 1)])

\* the variable of the guard declared as interface{} in every clause
typeCaseVariableInterface(ps, guard, caseStmt, def) ==
    IF guard.rhsIdentifier = Nil THEN ps
    ELSE LET sDef == SymbolDef(guard.rhsIdentifier.def, PackageName, Interface, caseStmt.Case)
         IN AddContract(SymAddVariable(ps, sDef, "typeswitch").ps,
                        PropagatesTo(MakeConstant(PackageName, Interface),
                                     VariableFromSymbolDef(sDef), NilType))

\* parseTypeSwitchStmt: the variable of the guard, declared in a clause
typeCaseVariable(ps, guard, caseStmt, def) ==
    IF guard.rhsIdentifier = Nil THEN ps
    ELSE LET sDef == SymbolDef(guard.rhsIdentifier.def, PackageName, def, caseStmt.Case)
         IN AddContract(SymAddVariable(ps, sDef, "typeswitch").ps,
                        PropagatesTo(MakeConstant(PackageName, def),
                                     VariableFromSymbolDef(sDef), NilType))

\* parseTypeSwitchStmt: the closure run for one clause
typeCaseClause(ps, guard, caseStmt) ==
    PopScope(With([head \in {
        IF Len(caseStmt.List) # 1
        THEN With([several \in {typeCaseList(PushScope(ps), caseStmt.List,
                                             guard.typeTypeVar, 1)} |->
               IF Failed(several) THEN several
               ELSE typeCaseVariable(several, guard, caseStmt, Interface)])
        ELSE With([rhsType \in {TypeParse(PushScope(ps).st, caseStmt.List[1])} |->
               IF rhsType.failed THEN Fail(PushScope(ps), "type")
               ELSE typeCaseVariable(
                      AddContract(PushScope(ps),
                                  IsCompatibleWith(MakeConstant(PackageName, rhsType.def),
                                                   guard.typeTypeVar, NilType, TRUE)),
                      guard, caseStmt, rhsType.def)])} |->
      IF Failed(head) THEN head ELSE parseClauseBody(head, caseStmt.Body)]))

RECURSIVE typeSwitchClauses(_, _, _, _)
\* parseTypeSwitchStmt: for _, stmt := range statement.Body.List
typeSwitchClauses(ps, guard, list, i) ==
    IF i > Len(list) THEN ps
    ELSE IF list[i].k # "CaseClause" THEN Fail(ps, "Expected *ast.CaseClause")
    ELSE With([r \in {typeCaseClause(ps, guard, list[i])} |->
      IF r.panicked THEN r
      ELSE IF r.err # "" THEN Drop([r EXCEPT !.err = ""], "typeswitch")
      ELSE typeSwitchClauses(r, guard, list, i + 1)])

parseTypeSwitchStmt(ps, statement) ==
    With([init \in {parseInit(ps, statement.Init)} |->
      IF Failed(init) THEN PopN(init, InitPops(statement.Init))
      ELSE With([guard \in {typeSwitchGuard(PushScope(init), statement.Assign)} |->
        PopN(IF guard.returned THEN guard.ps
             ELSE typeSwitchClauses(guard.ps, guard, statement.Body.List, 1),
             InitPops(statement.Init) + 1 + guard.pops)])])

\* parseSelectStmt: a receive clause declaring its variables (token.DEFINE)
selectDefine(ps, clause, rhsChannel, y) ==
    LET ident1 == clause.Lhs[1]
        sDef1 == SymbolDef(ident1.Name, PackageName, rhsChannel.value, ident1.NamePos)
        ident2 == clause.Lhs[2]
        sDef2 == SymbolDef(ident2.Name, PackageName, BoolType, ident2.NamePos)
    IN IF ident1.k # "Ident" THEN Fail(ps, "Expecting an identifier in select clause")
       ELSE IF Len(clause.Lhs) = 1
       THEN AddContract(SymAddVariable(ps, sDef1, "select").ps,
                        PropagatesTo(y, VariableFromSymbolDef(sDef1), NilType))
       ELSE IF ident2.k # "Ident" THEN Fail(ps, "Expecting an identifier in select clause")
       ELSE AddContract(
              SymAddVariable(
                AddContract(SymAddVariable(ps, sDef1, "select").ps,
                            PropagatesTo(y, VariableFromSymbolDef(sDef1), NilType)),
                sDef2, "select").ps,
              PropagatesTo(MakeConstant("builtin", BoolType),
                           VariableFromSymbolDef(sDef2), NilType))

\* parseSelectStmt: a receive clause assigning to what exists (token.ASSIGN)
selectAssign(ps, clause, y) ==
    With([assignAttr \in {ExprParse(ps, clause.Lhs[1])} |->
      IF assignAttr.err # "" THEN Fail(assignAttr.ps, assignAttr.err)
      ELSE IF NoResult(assignAttr) THEN Panic(assignAttr.ps)
      ELSE With([one \in {AddContract(assignAttr.ps,
                            IsCompatibleWith(y, assignAttr.TypeVarList[1], NilType, FALSE))} |->
        IF Len(clause.Lhs) = 1 THEN one
        ELSE With([assignOkAttr \in {ExprParse(one, clause.Lhs[2])} |->
          IF assignOkAttr.err # "" THEN Fail(assignOkAttr.ps, assignOkAttr.err)
          ELSE IF NoResult(assignOkAttr) THEN Panic(assignOkAttr.ps)
          ELSE AddContract(assignOkAttr.ps,
                           IsCompatibleWith(MakeConstant("builtin", BoolType),
                                            assignOkAttr.TypeVarList[1], NilType, FALSE))])])])

\* parseSelectStmt: case *ast.AssignStmt of a clause's communication
selectRecv(ps, clause) ==
    IF Len(clause.Rhs) # 1 THEN Fail(ps, "Expecting a single expression on the RHS")
    ELSE IF clause.Rhs[1].k # "UnaryExpr" THEN Fail(ps, "Expecting unary expression")
    ELSE IF clause.Rhs[1].Op # TokARROW THEN Fail(ps, "Expecting unary expression")
    ELSE With([rhsExprAttr \in {ExprParse(ps, clause.Rhs[1].X)} |->
      IF rhsExprAttr.err # "" THEN Fail(rhsExprAttr.ps, rhsExprAttr.err)
      ELSE IF Len(rhsExprAttr.DataTypeList) # 1
      THEN Fail(rhsExprAttr.ps, "Expecting unary expression")
      ELSE IF rhsExprAttr.DataTypeList[1].k # "channel"
      THEN Fail(rhsExprAttr.ps, "Expecting unary expression")
      ELSE IF Len(clause.Lhs) = 0
      THEN Fail(rhsExprAttr.ps, "Expecting at least one expression on the LHS")
      ELSE IF Len(clause.Lhs) > 2
      THEN Fail(rhsExprAttr.ps, "Expecting at most two expression on the LHS")
      ELSE With([v \in {NewVirtualVar(rhsExprAttr.ps)} |->
        With([recv \in {AddContract(v.ps, IsReceiveableFrom(rhsExprAttr.TypeVarList[1], v.y))} |->
               IF clause.Tok = TokDEFINE
               THEN selectDefine(recv, clause, rhsExprAttr.DataTypeList[1], v.y)
               ELSE selectAssign(recv, clause, v.y)])])])

\* parseSelectStmt: switch clause := commClause.Comm.(type)
selectComm(ps, clause) ==
    CASE clause.k = "ExprStmt" -> parseExprOnly(ps, clause.X)
      [] clause.k = "SendStmt" -> sendContract(ps, clause.Chan, clause.Value)
      [] clause.k = "AssignStmt" -> selectRecv(ps, clause)
      [] OTHER -> Fail(ps, "Unable to recognize selector CommClause CommCase")

\* the clause parsed in the scope of the select statement
selectClauseNoScope(ps, stmt) ==
    IF stmt.k # "CommClause"
    THEN Fail(ps, "Select must be a list of commClause")
    ELSE With([comm \in {IF stmt.Comm = Nil THEN ps
              ELSE selectComm(ps, stmt.Comm)} |-> IF Failed(comm) THEN comm
                            ELSE parseClauseBody(comm, stmt.Body)])

\* parseSelectStmt: the closure run for one clause
selectClause(ps, stmt) ==
    PopScope(IF stmt.k # "CommClause"
             THEN Fail(PushScope(ps), "Select must be a list of commClause")
             ELSE With([comm \in {IF stmt.Comm = Nil THEN PushScope(ps)
                       ELSE selectComm(PushScope(ps), stmt.Comm)} |-> IF Failed(comm) THEN comm
                                     ELSE parseClauseBody(comm, stmt.Body)]))

RECURSIVE selectClauses(_, _, _)
selectClauses(ps, list, i) ==
    IF i > Len(list) THEN ps
    ELSE With([r \in {selectClause(ps, list[i])} |->
      IF Failed(r) THEN r ELSE selectClauses(r, list, i + 1)])

parseSelectStmt(ps, statement) == selectClauses(ps, statement.Body.List, 1)

\* "sp.StmtParser.Parse(x)" as a statement: what it returns is discarded
parseDiscarded(ps, stmt) ==
    IF stmt = Nil THEN ps
    ELSE With([r \in {Parse(ps, stmt)} |->
      IF r.panicked \/ r.err = "" THEN r ELSE Drop([r EXCEPT !.err = ""], "for")])

parseForStmt(ps, statement) ==
    PopScope(With([init \in {parseDiscarded(PushScope(ps), statement.Init)} |->
      IF Failed(init) THEN init
      ELSE With([cond \in {IF statement.Cond = Nil THEN init
                           ELSE parseExprOnly(init, statement.Cond)} |->
        IF Failed(cond) THEN cond
        ELSE With([post \in {parseDiscarded(cond, statement.Post)} |->
          IF Failed(post) THEN post ELSE Parse(post, statement.Body)])])]))

\* the key and the value a range yields (value NilType: none); kind "panic"
\* is the default case of the switch
RangeTypes(key, value) == [failed |-> FALSE, key |-> key, value |-> value]

\* the range that yields the bytes of a string
rangeKeyValueByte(rangeExpr) ==
    CASE rangeExpr.k \in {"array", "slice", "ellipsis"} ->
           RangeTypes(Builtin("int", FALSE), rangeExpr.elem)
      [] rangeExpr.k \in {"builtin", "identifier"} ->
           RangeTypes(Builtin("int", FALSE), Builtin("byte", FALSE))
      [] rangeExpr.k = "map" -> RangeTypes(rangeExpr.keytype, rangeExpr.valuetype)
      [] rangeExpr.k = "channel" -> RangeTypes(rangeExpr.value, NilType)
      [] OTHER -> [failed |-> TRUE, key |-> NilType, value |-> NilType]

rangeKeyValue(rangeExpr) ==
    CASE rangeExpr.k \in {"array", "slice", "ellipsis"} ->
           RangeTypes(Builtin("int", FALSE), rangeExpr.elem)
      [] rangeExpr.k \in {"builtin", "identifier"} ->
           RangeTypes(Builtin("int", FALSE), Builtin("rune", FALSE))
      [] rangeExpr.k = "map" -> RangeTypes(rangeExpr.keytype, rangeExpr.valuetype)
      [] rangeExpr.k = "channel" -> RangeTypes(rangeExpr.value, NilType)
      [] OTHER -> [failed |-> TRUE, key |-> NilType, value |-> NilType]

\* parseRangeStmt: "if statement.Key != nil { ... }"
rangeKey(ps, statement, x, key) ==
    LET keyIdent == IF statement.Tok = TokDEFINE THEN statement.Key
                    ELSE StripParens(statement.Key)
        sDef == SymbolDef(keyIdent.Name, PackageName, key, keyIdent.NamePos)
    IN IF statement.Key = Nil THEN Step(ps, FALSE)
       ELSE IF keyIdent.k # "Ident" THEN Step(Fail(ps, "Expected key as an identifier"), TRUE)
       ELSE IF keyIdent.Name = "_" THEN Step(ps, FALSE)
       ELSE IF statement.Tok = TokDEFINE
       THEN With([add \in {SymAddVariable(ps, sDef, "range")} |->
              IF add.failed THEN Step(Fail(add.ps, "symbol exists"), TRUE)
              ELSE Step(AddContract(add.ps, PropagatesTo(MakeRangeKey(x.TypeVarList[1]),
                                                         VariableFromSymbolDef(sDef), key)),
                        FALSE)])
       ELSE With([keyAttr \in {ExprParse(ps, keyIdent)} |->
              IF keyAttr.err # "" THEN Step(Drop(keyAttr.ps, "range"), TRUE)
              ELSE Step(AddContract(keyAttr.ps,
                                    IsCompatibleWith(MakeRangeKey(x.TypeVarList[1]),
                                                     keyAttr.TypeVarList[1],
                                                     keyAttr.DataTypeList[1], FALSE)),
                        FALSE)])

\* parseRangeStmt: "if statement.Value != nil { ... }"; the assigned value is
\* tested and parsed with its parentheses
rangeValue(ps, statement, x, value) ==
    LET valueIdent == statement.Value
        sDef == SymbolDef(valueIdent.Name, PackageName, value, valueIdent.NamePos)
    IN IF statement.Value = Nil THEN Step(ps, FALSE)
       ELSE IF valueIdent.k # "Ident"
       THEN Step(Fail(ps, "Expected value as an identifier"), TRUE)
       ELSE IF valueIdent.Name = "_" \/ value = NilType THEN Step(ps, FALSE)
       ELSE IF statement.Tok = TokDEFINE
       THEN With([add \in {SymAddVariable(ps, sDef, "range")} |->
              IF add.failed THEN Step(Fail(add.ps, "symbol exists"), TRUE)
              ELSE Step(AddContract(add.ps, PropagatesTo(MakeRangeValue(x.TypeVarList[1]),
                                                         VariableFromSymbolDef(sDef), value)),
                        FALSE)])
       ELSE With([valueAttr \in {ExprParse(ps, statement.Value)} |->
              IF valueAttr.err # "" THEN Step(Drop(valueAttr.ps, "range"), TRUE)
              ELSE Step(AddContract(valueAttr.ps,
                                    IsCompatibleWith(MakeRangeValue(x.TypeVarList[1]),
                                                     valueAttr.TypeVarList[1],
                                                     valueAttr.DataTypeList[1], FALSE)),
                        FALSE)])

\* the range statement that declares the key and the value in the scope around it
parseRangeStmtNoScope(ps, statement) ==
    With([xExprAttr \in {ExprParse(ps, statement.X)} |->
      IF xExprAttr.err # "" THEN Fail(xExprAttr.ps, xExprAttr.err)
      ELSE IF NoResult(xExprAttr) THEN Panic(xExprAttr.ps)
      ELSE With([rangeable \in {AddContract(xExprAttr.ps,
                                IsRangeable(xExprAttr.TypeVarList[1]))} |->
        With([rangeExpr \in {Underlying(rangeable.st, xExprAttr.DataTypeList[1])} |->
          IF rangeExpr.failed THEN Fail(rangeable, "unresolved identifier")
          ELSE With([kv \in {rangeKeyValue(rangeExpr.def)} |->
            IF kv.failed THEN Panic(rangeable)
            ELSE With([key \in {rangeKey(rangeable, statement, xExprAttr, kv.key)} |->
              IF key.returned THEN key.ps
              ELSE With([value \in {rangeValue(key.ps, statement, xExprAttr, kv.value)} |->
                IF value.returned THEN value.ps
                ELSE Parse(value.ps, statement.Body)])])])])])])

parseRangeStmt(ps, statement) ==
    With([xExprAttr \in {ExprParse(ps, statement.X)} |->
      IF xExprAttr.err # "" THEN Fail(xExprAttr.ps, xExprAttr.err)
      ELSE IF NoResult(xExprAttr) THEN PopScope(Panic(PushScope(xExprAttr.ps)))
      ELSE With([rangeable \in {AddContract(PushScope(xExprAttr.ps),
                                            IsRangeable(xExprAttr.TypeVarList[1]))} |->
        With([rangeExpr \in {Underlying(rangeable.st, xExprAttr.DataTypeList[1])} |->
          IF rangeExpr.failed THEN PopScope(Fail(rangeable, "unresolved identifier"))
          ELSE With([kv \in {rangeKeyValue(rangeExpr.def)} |->
            IF kv.failed THEN PopScope(Panic(rangeable))
            ELSE With([key \in {rangeKey(rangeable, statement, xExprAttr, kv.key)} |->
              IF key.returned THEN PopScope(key.ps)
              ELSE With([value \in {rangeValue(key.ps, statement, xExprAttr, kv.value)} |->
                PopScope(IF value.returned THEN value.ps
                         ELSE Parse(value.ps, statement.Body))])])])])])])

parseIfStmt(ps, statement) ==
    PopN(With([init \in {parseInit(ps, statement.Init)} |->
           IF Failed(init) THEN init
           ELSE With([cond \in {parseExprOnly(init, statement.Cond)} |->
                  IF Failed(cond) THEN cond
                  ELSE With([body \in {Parse(cond, statement.Body)} |->
                         IF Failed(body) THEN body
                         ELSE IF statement.Else # Nil THEN Parse(body, statement.Else)
                         ELSE body])])]),
         InitPops(statement.Init))

parseBlockStmt(ps, statement) ==
    PopScope(parseStmtList(PushScope(ps), statement.List, 1))

Parse(ps, statement) ==
    CASE statement.k = "DeclStmt" -> parseDeclStmt(ps, statement)
      [] statement.k = "LabeledStmt" -> parseLabeledStmt(ps, statement)
      [] statement.k = "ExprStmt" -> parseExprStmt(ps, statement)
      [] statement.k = "SendStmt" -> parseSendStmt(ps, statement)
      [] statement.k = "IncDecStmt" -> parseIncDecStmt(ps, statement)
      [] statement.k = "AssignStmt" -> parseAssignStmt(ps, statement)
      [] statement.k = "GoStmt" -> parseGoStmt(ps, statement)
      [] statement.k = "ReturnStmt" -> parseResults(ps, statement.Results, 1)
      [] statement.k = "BranchStmt" -> parseBranchStmt(ps, statement)
      [] statement.k = "BlockStmt" -> parseBlockStmt(ps, statement)
      [] statement.k = "IfStmt" -> parseIfStmt(ps, statement)
      [] statement.k = "SwitchStmt" -> parseSwitchStmt(ps, statement)
      [] statement.k = "TypeSwitchStmt" -> parseTypeSwitchStmt(ps, statement)
      [] statement.k = "SelectStmt" -> parseSelectStmt(ps, statement)
      [] statement.k = "ForStmt" -> parseForStmt(ps, statement)
      [] statement.k = "RangeStmt" -> parseRangeStmt(ps, statement)
      [] statement.k = "DeferStmt" -> parseDeferStmt(ps, statement)
      [] statement.k = "EmptyStmt" -> ps
      [] OTHER -> Panic(ps)

(***************************************************************************)
(* The stack driven directly: every operation of the Stack, from New()     *)
(***************************************************************************)
IntType == Builtin("int", FALSE)
StringType == Builtin("string", FALSE)

StackNames == {"a", "f"}

StackVariables == { SymbolDef("a", "", IntType, 1), SymbolDef("a", "", StringType, 2) }

StackDataTypes == { SymbolDef("T", "pkg", Struct(<<>>), 0) }

StackFunctions == { SymbolDef("f", "pkg", Function(<<>>), 0) }

StackLevels == -1 .. MaxSize

StackCall(op, name, level, sym, pre, err, panicked, ret) ==
    [op |-> op, name |-> name, level |-> level, sym |-> sym, pre |-> pre,
     err |-> err, panicked |-> panicked, ret |-> ret]

\* no project parser runs beside the stack or the statement parser
NoProject == packageStack = <<>> /\ globalSymbolTable = {} /\ gopath = <<>>

ProjectFrame == UNCHANGED <<packageStack, globalSymbolTable, gopath>>

StackFrame ==
    /\ UNCHANGED <<ContractTable, lastConstType, allocated, ncalls>>
    /\ ProjectFrame

InitStack ==
    /\ NoProject
    /\ SymbolTable = New
    /\ ContractTable = [contracts |-> <<>>, virtual |-> 0]
    /\ lastConstType = NilType
    /\ allocated = <<>>
    /\ call = StackCall("New", "", 0, NoSymbol, New, FALSE, FALSE, NoSymbol)
    /\ ncalls = 0

DoPush ==
    /\ ~call.panicked
    /\ SymbolTable.Size < MaxSize
    /\ SymbolTable' = Push(SymbolTable)
    /\ call' = StackCall("Push", "", 0, NoSymbol, SymbolTable, FALSE, FALSE, NoSymbol)
    /\ StackFrame

DoPop ==
    /\ ~call.panicked
    /\ LET r == Pop(SymbolTable)
       IN /\ SymbolTable' = r.s
          /\ call' = StackCall("Pop", "", 0, NoSymbol, SymbolTable, FALSE, r.panicked, NoSymbol)
    /\ StackFrame

DoAddVariable ==
    /\ ~call.panicked
    /\ \E sym \in StackVariables :
         LET r == AddVariable(SymbolTable, sym)
         IN /\ SymbolTable' = r.s
            /\ call' = StackCall("AddVariable", sym.Name, 0, sym, SymbolTable, r.err, FALSE, NoSymbol)
    /\ StackFrame

DoAddDataType ==
    /\ ~call.panicked
    /\ \E sym \in StackDataTypes :
         LET r == AddDataType(SymbolTable, sym)
         IN /\ SymbolTable' = r.s
            /\ call' = StackCall("AddDataType", sym.Name, 0, sym, SymbolTable, r.err, FALSE, NoSymbol)
    /\ StackFrame

DoAddFunction ==
    /\ ~call.panicked
    /\ \E sym \in StackFunctions :
         LET r == AddFunction(SymbolTable, sym)
         IN /\ SymbolTable' = r.s
            /\ call' = StackCall("AddFunction", sym.Name, 0, sym, SymbolTable, r.err, FALSE, NoSymbol)
    /\ StackFrame

DoLookupVariable ==
    /\ ~call.panicked
    /\ \E name \in StackNames :
         LET r == LookupVariable(SymbolTable, name)
         IN call' = StackCall("LookupVariable", name, 0, NoSymbol, SymbolTable, r.err, FALSE, r.def)
    /\ UNCHANGED SymbolTable
    /\ StackFrame

DoLookup ==
    /\ ~call.panicked
    /\ \E name \in StackNames :
         LET r == Lookup(SymbolTable, name)
         IN call' = StackCall("Lookup", name, 0, NoSymbol, SymbolTable, r.err, FALSE, r.def)
    /\ UNCHANGED SymbolTable
    /\ StackFrame

DoReset ==
    /\ ~call.panicked
    /\ \E level \in StackLevels :
         LET r == Reset(SymbolTable, level)
         IN /\ SymbolTable' = r.s
            /\ call' = StackCall("Reset", "", level, NoSymbol, SymbolTable, r.err, FALSE, NoSymbol)
    /\ StackFrame

DoTable ==
    /\ ~call.panicked
    /\ \E level \in StackLevels :
         LET r == Table(SymbolTable, level)
         IN call' = StackCall("Table", "", level, NoSymbol, SymbolTable, r.err, FALSE, NoSymbol)
    /\ UNCHANGED SymbolTable
    /\ StackFrame

NextStack ==
    \/ DoPush
    \/ DoPop
    \/ DoAddVariable
    \/ DoAddDataType
    \/ DoAddFunction
    \/ DoLookupVariable
    \/ DoLookup
    \/ DoReset
    \/ DoTable

SpecStack == InitStack /\ [][NextStack]_vars

(***************************************************************************)
(* The statement parser driven as the file parser drives it: the stack     *)
(* holds the file-level table, and function bodies, function declarations  *)
(* and file-level value specs are handed to it one after another.          *)
(*                                                                         *)
(*   type T struct { x int };  type S string                               *)
(*   var g int; var s S; var str = "..."; var ch chan int                  *)
(*   var m map[string]int; var t T; var pt *T; var i interface{}           *)
(*   var xs []int;  func f() (int, string);  func f0()                     *)
(***************************************************************************)
IntId == Identifier("int", "builtin")
StringId == Identifier("string", "builtin")

FileSymbol(name, def) == SymbolDef(name, PackageName, def, 0)

FileTable ==
    { Entry(DataTypeSymbol, FileSymbol("T", Struct(<<[fname |-> "x", ftype |-> IntId]>>))),
      Entry(DataTypeSymbol, FileSymbol("S", StringId)),
      Entry(VariableSymbol, FileSymbol("g", IntId)),
      Entry(VariableSymbol, FileSymbol("s", Identifier("S", PackageName))),
      Entry(VariableSymbol, FileSymbol("str", Builtin("string", FALSE))),
      Entry(VariableSymbol, FileSymbol("ch", Channel(IntId))),
      Entry(VariableSymbol, FileSymbol("m", Map(StringId, IntId))),
      Entry(VariableSymbol, FileSymbol("t", Identifier("T", PackageName))),
      Entry(VariableSymbol, FileSymbol("pt", Pointer(Identifier("T", PackageName)))),
      Entry(VariableSymbol, FileSymbol("i", Interface)),
      Entry(VariableSymbol, FileSymbol("xs", Slice(IntId))),
      Entry(FunctionSymbol, FileSymbol("f", Function(<<IntId, StringId>>))),
      Entry(FunctionSymbol, FileSymbol("f0", Function(<<>>))) }

FileStack == [Tables |-> <<FileTable>>, Size |-> 1]

\* shorthands for the syntax trees below
Lit == BasicLit("INT")
LitS == BasicLit("STRING")
Var(name) == Ident(name, 0)
TypeName(name) == Ident(name, 0)
Define(lhs, rhs) == AssignStmt(lhs, TokDEFINE, rhs)
Assign(lhs, rhs) == AssignStmt(lhs, TokASSIGN, rhs)
Recv(x) == UnaryExpr(TokARROW, x)
Block0 == BlockStmt(<<>>)
Call0(name) == CallExpr(Var(name), <<>>)
TypeGuard(x) == TypeAssertExpr(x, Nil)
DefineA == Define(<<Ident("a", 20)>>, <<Lit>>)

\* assignments and declarations
AssignBodies ==
    { <<>>,
      \* a := 1
      <<DefineA>>,
      \* a := 1; a, b := 2, "x"
      <<DefineA, Define(<<Ident("a", 30), Ident("b", 31)>>, <<Lit, LitS>>)>>,
      \* a := 1; a = 2
      <<DefineA, Assign(<<Ident("a", 30)>>, <<Lit>>)>>,
      \* g = 1
      <<Assign(<<Ident("g", 20)>>, <<Lit>>)>>,
      \* z = 1
      <<Assign(<<Ident("z", 20)>>, <<Lit>>)>>,
      \* u.x = 1
      <<Assign(<<SelectorExpr(Var("u"), "x")>>, <<Lit>>)>>,
      \* t.x = 1
      <<Assign(<<SelectorExpr(Var("t"), "x")>>, <<Lit>>)>>,
      \* *u = 1
      <<Assign(<<StarExpr(Var("u"))>>, <<Lit>>)>>,
      \* *pt = t
      <<Assign(<<StarExpr(Var("pt"))>>, <<Var("t")>>)>>,
      \* m["k"] = 1
      <<Assign(<<IndexExpr(Var("m"), LitS)>>, <<Lit>>)>>,
      \* u[1] = 1; a := 1
      <<Assign(<<IndexExpr(Var("u"), Lit)>>, <<Lit>>), DefineA>>,
      \* _ = g
      <<Assign(<<Ident("_", 20)>>, <<Var("g")>>)>>,
      \* a, b := f()
      <<Define(<<Ident("a", 20), Ident("b", 21)>>, <<Call0("f")>>)>>,
      \* a, _ := f()
      <<Define(<<Ident("a", 20), Ident("_", 21)>>, <<Call0("f")>>)>>,
      \* a := f()
      <<Define(<<Ident("a", 20)>>, <<Call0("f")>>)>>,
      \* a, b := 1, 2, 3
      <<Define(<<Ident("a", 20), Ident("b", 21)>>, <<Lit, Lit, Lit>>)>>,
      \* v, ok := m["k"]
      <<Define(<<Ident("v", 20), Ident("ok", 21)>>, <<IndexExpr(Var("m"), LitS)>>)>>,
      \* v, ok := i.(T)
      <<Define(<<Ident("v", 20), Ident("ok", 21)>>, <<TypeAssertExpr(Var("i"), TypeName("T"))>>)>>,
      \* v, ok := <-ch
      <<Define(<<Ident("v", 20), Ident("ok", 21)>>, <<Recv(Var("ch"))>>)>>,
      \* (g) = 1
      <<Assign(<<ParenExpr(Ident("g", 20))>>, <<Lit>>)>>,
      \* f0() = 1
      <<Assign(<<Call0("f0")>>, <<Lit>>)>>,
      \* type L struct { next *L }; var l L
      <<DeclStmt(<<TypeSpec(Ident("L", 20),
                            StructType(<<AstField(<<Ident("next", 21)>>,
                                                  StarExpr(TypeName("L")))>>))>>),
        DeclStmt(<<ValueSpec(<<Ident("l", 30)>>, TypeName("L"), <<>>)>>)>>,
      \* type N int; type N string
      <<DeclStmt(<<TypeSpec(Ident("N", 20), TypeName("int"))>>),
        DeclStmt(<<TypeSpec(Ident("N", 30), TypeName("string"))>>)>>,
      \* type N U
      <<DeclStmt(<<TypeSpec(Ident("N", 20), TypeName("U"))>>)>>,
      \* var a int = 1
      <<DeclStmt(<<ValueSpec(<<Ident("a", 20)>>, TypeName("int"), <<Lit>>)>>)>>,
      \* var a, _ = 1, "x"
      <<DeclStmt(<<ValueSpec(<<Ident("a", 20), Ident("_", 21)>>, Nil, <<Lit, LitS>>)>>)>>,
      \* var a int; var a string; b := 1
      <<DeclStmt(<<ValueSpec(<<Ident("a", 20)>>, TypeName("int"), <<>>)>>),
        DeclStmt(<<ValueSpec(<<Ident("a", 30)>>, TypeName("string"), <<>>)>>),
        Define(<<Ident("b", 40)>>, <<Lit>>)>> }

RangeDefine(key, value, x) == RangeStmt(key, value, TokDEFINE, x, Block0)
RangeAssign(key, value, x) == RangeStmt(key, value, TokASSIGN, x, Block0)

\* for k, c := range x {}, over the strings and over the rest
RangeBodies ==
    { <<RangeDefine(Ident("k", 20), Ident("c", 21), x)>> :
        x \in {LitS, Var("s"), Var("str"), Var("m"), Var("xs"), Var("ch"), Var("g"),
               Var("t"), Var("z")} }
    \cup
    { \* for _, c := range s {}
      <<RangeDefine(Ident("_", 20), Ident("c", 21), Var("s"))>>,
      \* for k := range "abc" { k := 1 }
      <<RangeStmt(Ident("k", 20), Nil, TokDEFINE, LitS,
                  BlockStmt(<<Define(<<Ident("k", 30)>>, <<Lit>>)>>))>>,
      \* for range xs {}
      <<RangeDefine(Nil, Nil, Var("xs"))>>,
      \* for t.x, c := range xs {}
      <<RangeDefine(SelectorExpr(Var("t"), "x"), Ident("c", 21), Var("xs"))>>,
      \* for g = range xs {}
      <<RangeAssign(Ident("g", 20), Nil, Var("xs"))>>,
      \* for (g), g = range s {}
      <<RangeAssign(ParenExpr(Ident("g", 20)), Ident("g", 21), Var("s"))>>,
      \* for g, (g) = range xs {}
      <<RangeAssign(Ident("g", 20), ParenExpr(Ident("g", 21)), Var("xs"))>>,
      \* for z = range xs {}
      <<RangeAssign(Ident("z", 20), Nil, Var("xs"))>>,
      \* for g, z = range xs {}
      <<RangeAssign(Ident("g", 20), Ident("z", 21), Var("xs"))>> }

\* for k, v := range x { a, b := k, v }; after
RangeScope(x, after) ==
    <<RangeStmt(Ident("k", 20), Ident("v", 21), TokDEFINE, x,
                BlockStmt(<<Define(<<Ident("a", 30), Ident("b", 31)>>,
                                   <<Var("k"), Var("v")>>)>>)),
      after>>

\* the key and the value used in the body of the range and after it
RangeScopeBodies ==
    { RangeScope(x, after) :
        x \in {Var("xs"), Var("m")},
        after \in {Define(<<Ident("c", 40)>>, <<Var("k")>>),
                   Define(<<Ident("c", 40)>>, <<Var("v")>>),
                   Define(<<Ident("c", 40)>>, <<Lit>>)} }
    \cup
    { \* for k, v := range xs { b := z }; c := 1
      <<RangeStmt(Ident("k", 20), Ident("v", 21), TokDEFINE, Var("xs"),
                  BlockStmt(<<Define(<<Ident("b", 30)>>, <<Var("z")>>)>>)),
        Define(<<Ident("c", 40)>>, <<Lit>>)>> }

Case(list, body) == CaseClause(25, list, body)
TypeSwitch(assign, clauses) == TypeSwitchStmt(Nil, assign, BlockStmt(clauses))

\* switch guard { case T: a := v; case int, string: b := v; default: c := v }; after
TypeScope(guard, after) ==
    <<TypeSwitch(guard,
                 <<CaseClause(25, <<TypeName("T")>>,
                              <<Define(<<Ident("a", 30)>>, <<Var("v")>>)>>),
                   CaseClause(26, <<TypeName("int"), TypeName("string")>>,
                              <<Define(<<Ident("b", 31)>>, <<Var("v")>>)>>),
                   CaseClause(27, <<>>, <<Define(<<Ident("c", 32)>>, <<Var("v")>>)>>)>>),
      after>>

\* the variable of a type switch used in the clauses and after the switch
TypeScopeBodies ==
    { TypeScope(guard, after) :
        guard \in {Define(<<Ident("v", 20)>>, <<TypeGuard(Var("i"))>>),
                   ExprStmt(TypeGuard(Var("i")))},
        after \in {Define(<<Ident("d", 40)>>, <<Var("v")>>),
                   Define(<<Ident("d", 40)>>, <<Lit>>)} }
    \cup
    { \* switch v := i.(type) { case T: ; case int, string: ; default: ; case S: }
      <<TypeSwitch(Define(<<Ident("v", 20)>>, <<TypeGuard(Var("i"))>>),
                   <<CaseClause(25, <<TypeName("T")>>, <<>>),
                     CaseClause(26, <<TypeName("int"), TypeName("string")>>, <<>>),
                     CaseClause(27, <<>>, <<>>),
                     CaseClause(28, <<TypeName("S")>>, <<>>)>>)>> }

SwitchBodies ==
    { \* switch g { case 1: a := 1; case 2, z: ; default: }
      <<SwitchStmt(Nil, Var("g"),
                   BlockStmt(<<Case(<<Lit>>, <<DefineA>>), Case(<<Lit, Var("z")>>, <<>>),
                               Case(<<>>, <<>>)>>))>>,
      \* switch { case true: b := z }
      <<SwitchStmt(Nil, Nil,
                   BlockStmt(<<Case(<<Var("true")>>,
                                    <<Define(<<Ident("b", 30)>>, <<Var("z")>>)>>)>>))>>,
      \* switch a := 1; a { }
      <<SwitchStmt(DefineA, Var("a"), Block0)>>,
      \* switch a := z; a { }
      <<SwitchStmt(Define(<<Ident("a", 20)>>, <<Var("z")>>), Var("a"), Block0)>>,
      \* switch z { }
      <<SwitchStmt(Nil, Var("z"), Block0)>>,
      \* switch v := i.(type) { case T: _ = v; case int, string: ; default: }
      <<TypeSwitch(Define(<<Ident("v", 20)>>, <<TypeGuard(Var("i"))>>),
                   <<Case(<<TypeName("T")>>, <<Assign(<<Ident("_", 30)>>, <<Var("v")>>)>>),
                     Case(<<TypeName("int"), TypeName("string")>>, <<>>),
                     Case(<<>>, <<>>)>>)>>,
      \* switch _ := i.(type) { case T: }
      <<TypeSwitch(Define(<<Ident("_", 20)>>, <<TypeGuard(Var("i"))>>),
                   <<Case(<<TypeName("T")>>, <<>>)>>)>>,
      \* switch i.(type) { case T: ; case U: ; case S: a := 1 }
      <<TypeSwitch(ExprStmt(TypeGuard(Var("i"))),
                   <<Case(<<TypeName("T")>>, <<>>), Case(<<TypeName("U")>>, <<>>),
                     Case(<<TypeName("S")>>, <<DefineA>>)>>)>>,
      \* switch v := i.(type) { case T, U: }
      <<TypeSwitch(Define(<<Ident("v", 20)>>, <<TypeGuard(Var("i"))>>),
                   <<Case(<<TypeName("T"), TypeName("U")>>, <<>>)>>)>>,
      \* switch v := i.(type) { case T: a := z }
      <<TypeSwitch(Define(<<Ident("v", 20)>>, <<TypeGuard(Var("i"))>>),
                   <<Case(<<TypeName("T")>>, <<Define(<<Ident("a", 30)>>, <<Var("z")>>)>>)>>)>>,
      \* switch v := z.(type) { }
      <<TypeSwitch(Define(<<Ident("v", 20)>>, <<TypeGuard(Var("z"))>>), <<>>)>>,
      \* switch z.(type) { }
      <<TypeSwitch(ExprStmt(TypeGuard(Var("z"))), <<>>)>>,
      \* switch a := 1; v := i.(type) { case T: }
      <<TypeSwitchStmt(DefineA, Define(<<Ident("v", 30)>>, <<TypeGuard(Var("i"))>>),
                       BlockStmt(<<Case(<<TypeName("T")>>, <<>>)>>))>>,
      \* switch a := z; i.(type) { }
      <<TypeSwitchStmt(Define(<<Ident("a", 20)>>, <<Var("z")>>),
                       ExprStmt(TypeGuard(Var("i"))), Block0)>> }

Comm(comm) == CommClause(comm, <<>>)
Select(clauses) == SelectStmt(BlockStmt(clauses))

SelectBodies ==
    { \* select { case v := <-ch: a := 1; case ch <- 1: ; case <-ch: ; default: }
      <<Select(<<CommClause(Define(<<Ident("v", 20)>>, <<Recv(Var("ch"))>>), <<DefineA>>),
                 Comm(SendStmt(Var("ch"), Lit)), Comm(ExprStmt(Recv(Var("ch")))),
                 Comm(Nil)>>)>>,
      \* select { case v, ok := <-ch: }
      <<Select(<<Comm(Define(<<Ident("v", 20), Ident("ok", 21)>>, <<Recv(Var("ch"))>>))>>)>>,
      \* select { case v, _ := <-ch: }
      <<Select(<<Comm(Define(<<Ident("v", 20), Ident("_", 21)>>, <<Recv(Var("ch"))>>))>>)>>,
      \* select { case g = <-ch: }
      <<Select(<<Comm(Assign(<<Ident("g", 20)>>, <<Recv(Var("ch"))>>))>>)>>,
      \* select { case g, t.x = <-ch: }
      <<Select(<<Comm(Assign(<<Ident("g", 20), SelectorExpr(Var("t"), "x")>>,
                             <<Recv(Var("ch"))>>))>>)>>,
      \* select { case g, z = <-ch: }
      <<Select(<<Comm(Assign(<<Ident("g", 20), Ident("z", 21)>>, <<Recv(Var("ch"))>>))>>)>>,
      \* select { case z = <-ch: }
      <<Select(<<Comm(Assign(<<Ident("z", 20)>>, <<Recv(Var("ch"))>>))>>)>>,
      \* select { case v := <-z: }
      <<Select(<<Comm(Define(<<Ident("v", 20)>>, <<Recv(Var("z"))>>))>>)>>,
      \* select { case v := <-g: }
      <<Select(<<Comm(Define(<<Ident("v", 20)>>, <<Recv(Var("g"))>>))>>)>>,
      \* select { case v := g: }
      <<Select(<<Comm(Define(<<Ident("v", 20)>>, <<Var("g")>>))>>)>>,
      \* select { case t.x := <-ch: }
      <<Select(<<Comm(Define(<<SelectorExpr(Var("t"), "x")>>, <<Recv(Var("ch"))>>))>>)>>,
      \* select { case v, t.x := <-ch: }
      <<Select(<<Comm(Define(<<Ident("v", 20), SelectorExpr(Var("t"), "x")>>,
                             <<Recv(Var("ch"))>>))>>)>>,
      \* select { case v := -g: }
      <<Select(<<Comm(Define(<<Ident("v", 20)>>, <<UnaryExpr("-", Var("g"))>>))>>)>>,
      \* select { case ch <- z: } ; select { case z <- 1: }
      <<Select(<<Comm(SendStmt(Var("ch"), Var("z")))>>)>>,
      <<Select(<<Comm(SendStmt(Var("z"), Lit))>>)>> }

\* case id := <-ch: body
RecvClause(id, body) == CommClause(Define(<<id>>, <<Recv(Var("ch"))>>), body)

\* the received variable used in its clause, in another clause and after the
\* select statement
SelectScopeBodies ==
    { \* select { case v := <-ch: a := v; case w := <-ch: b := w }; c := 1
      <<Select(<<RecvClause(Ident("v", 20), <<Define(<<Ident("a", 30)>>, <<Var("v")>>)>>),
                 RecvClause(Ident("w", 21), <<Define(<<Ident("b", 31)>>, <<Var("w")>>)>>)>>),
        Define(<<Ident("c", 40)>>, <<Lit>>)>>,
      \* select { case v := <-ch: ; case ch <- v: }
      <<Select(<<RecvClause(Ident("v", 20), <<>>), Comm(SendStmt(Var("ch"), Var("v")))>>)>>,
      \* select { case v := <-ch: }; c := v
      <<Select(<<RecvClause(Ident("v", 20), <<>>)>>), Define(<<Ident("c", 40)>>, <<Var("v")>>)>>,
      \* select { case v := <-ch: b := z; case w := <-ch: }
      <<Select(<<RecvClause(Ident("v", 20), <<Define(<<Ident("b", 30)>>, <<Var("z")>>)>>),
                 RecvClause(Ident("w", 21), <<>>)>>)>> }

OtherBodies ==
    { \* for a := 1; true; a++ { b := a }
      <<ForStmt(DefineA, Var("true"), IncDecStmt(Var("a")),
                BlockStmt(<<Define(<<Ident("b", 30)>>, <<Var("a")>>)>>))>>,
      \* for z = 1; ; { }
      <<ForStmt(Assign(<<Ident("z", 20)>>, <<Lit>>), Nil, Nil, Block0)>>,
      \* for ; ; z++ { }
      <<ForStmt(Nil, Nil, IncDecStmt(Var("z")), Block0)>>,
      \* for z { }
      <<ForStmt(Nil, Var("z"), Nil, Block0)>>,
      \* for { a := z }
      <<ForStmt(Nil, Nil, Nil, BlockStmt(<<Define(<<Ident("a", 20)>>, <<Var("z")>>)>>))>>,
      \* for v, ok := <-ch; ok; { }
      <<ForStmt(Define(<<Ident("v", 20), Ident("ok", 21)>>, <<Recv(Var("ch"))>>),
                Var("ok"), Nil, Block0)>>,
      \* if a := 1; true { b := a } else { c := a }
      <<IfStmt(DefineA, Var("true"),
               BlockStmt(<<Define(<<Ident("b", 30)>>, <<Var("a")>>)>>),
               BlockStmt(<<Define(<<Ident("c", 40)>>, <<Var("a")>>)>>))>>,
      \* if z { }
      <<IfStmt(Nil, Var("z"), Block0, Nil)>>,
      \* if a := z; true { }
      <<IfStmt(Define(<<Ident("a", 20)>>, <<Var("z")>>), Var("true"), Block0, Nil)>>,
      \* if true { a := z }
      <<IfStmt(Nil, Var("true"),
               BlockStmt(<<Define(<<Ident("a", 20)>>, <<Var("z")>>)>>), Nil)>>,
      \* if true { } else if z { }
      <<IfStmt(Nil, Var("true"), Block0, IfStmt(Nil, Var("z"), Block0, Nil))>>,
      \* { a := 1; { b := z } }
      <<BlockStmt(<<DefineA,
                    BlockStmt(<<Define(<<Ident("b", 30)>>, <<Var("z")>>)>>)>>)>>,
      \* { a := 1 }; a = 2
      <<BlockStmt(<<DefineA>>), Assign(<<Ident("a", 30)>>, <<Lit>>)>>,
      \* return g, 1
      <<ReturnStmt(<<Var("g"), Lit>>)>>,
      \* return z
      <<ReturnStmt(<<Var("z")>>)>>,
      \* L: g++; break L
      <<LabeledStmt(IncDecStmt(Var("g"))), BranchStmt>>,
      \* z++
      <<IncDecStmt(Var("z"))>>,
      \* f0()++
      <<IncDecStmt(Call0("f0"))>>,
      \* go f0(); defer f0(); f0(); ;
      <<GoStmt(Call0("f0")), DeferStmt(Call0("f0")), ExprStmt(Call0("f0")), EmptyStmt>>,
      \* go z()
      <<GoStmt(Call0("z"))>>,
      \* ch <- 1
      <<SendStmt(Var("ch"), Lit)>>,
      \* ch <- z
      <<SendStmt(Var("ch"), Var("z"))>>,
      \* a statement that did not parse (*ast.BadStmt)
      <<[k |-> "BadStmt"]>> }

\* const ( A = iota; B; C )
IotaGroup ==
    DeclStmt(<<ValueSpec(<<Ident("A", 20)>>, Nil, <<Var("iota")>>),
               ValueSpec(<<Ident("B", 21)>>, Nil, <<>>),
               ValueSpec(<<Ident("C", 22)>>, Nil, <<>>)>>)

\* the assignments of a value and an "ok" from one expression
CommaOkBodies ==
    { \* v := m["k"]
      <<Define(<<Ident("v", 20)>>, <<IndexExpr(Var("m"), LitS)>>)>>,
      \* v, ok, w := m["k"]
      <<Define(<<Ident("v", 20), Ident("ok", 21), Ident("w", 22)>>,
               <<IndexExpr(Var("m"), LitS)>>)>>,
      \* _, ok := m["k"]
      <<Define(<<Ident("_", 20), Ident("ok", 21)>>, <<IndexExpr(Var("m"), LitS)>>)>>,
      \* v, ok := m[z]
      <<Define(<<Ident("v", 20), Ident("ok", 21)>>, <<IndexExpr(Var("m"), Var("z"))>>)>>,
      \* _, ok := i.(T)
      <<Define(<<Ident("_", 20), Ident("ok", 21)>>,
               <<TypeAssertExpr(Var("i"), TypeName("T"))>>)>>,
      \* g, _ = i.(T)
      <<Assign(<<Ident("g", 20), Ident("_", 21)>>,
               <<TypeAssertExpr(Var("i"), TypeName("T"))>>)>>,
      \* v, ok, w := i.(T)
      <<Define(<<Ident("v", 20), Ident("ok", 21), Ident("w", 22)>>,
               <<TypeAssertExpr(Var("i"), TypeName("T"))>>)>>,
      \* v, ok := z.(T)
      <<Define(<<Ident("v", 20), Ident("ok", 21)>>,
               <<TypeAssertExpr(Var("z"), TypeName("T"))>>)>> }

\* C.name()
CgoCall(name) == CallExpr(SelectorExpr(Var("C"), name), <<>>)

\* identifiers declared from the results of one call
CallBodies ==
    { <<Define([i \in 1 .. n |-> Ident(<<"a", "b", "e", "d">>[i], 19 + i)], <<c>>)>> :
        n \in 2 .. 4, c \in {CgoCall("f1"), CgoCall("f2"), Call0("f"), Call0("f0")} }
    \cup
    { \* a, _, err := C.f2()
      <<Define(<<Ident("a", 20), Ident("_", 21), Ident("err", 22)>>, <<CgoCall("f2")>>)>>,
      \* a, b := C.z()
      <<Define(<<Ident("a", 20), Ident("b", 21)>>, <<CgoCall("z")>>)>> }

\* the declarations of constants and variables in a function body
DeclBodies ==
    { <<IotaGroup>>,
      \* var a, b int = 1, 2
      <<DeclStmt(<<ValueSpec(<<Ident("a", 20), Ident("b", 21)>>, TypeName("int"),
                             <<Lit, Lit>>)>>)>>,
      \* var a, b = f()
      <<DeclStmt(<<ValueSpec(<<Ident("a", 20), Ident("b", 21)>>, Nil, <<Call0("f")>>)>>)>>,
      \* const a, b = iota
      <<DeclStmt(<<ValueSpec(<<Ident("a", 20), Ident("b", 21)>>, Nil, <<Var("iota")>>)>>)>>,
      \* const d
      <<DeclStmt(<<ValueSpec(<<Ident("d", 20)>>, Nil, <<>>)>>)>>,
      \* var ( a int; a string; e int )
      <<DeclStmt(<<ValueSpec(<<Ident("a", 20)>>, TypeName("int"), <<>>),
                   ValueSpec(<<Ident("a", 21)>>, TypeName("string"), <<>>),
                   ValueSpec(<<Ident("e", 22)>>, TypeName("int"), <<>>)>>)>> }

Bodies ==
    AssignBodies \cup RangeBodies \cup SwitchBodies \cup SelectBodies \cup OtherBodies
    \cup DeclBodies \cup CommaOkBodies \cup RangeScopeBodies \cup SelectScopeBodies
    \cup CallBodies \cup TypeScopeBodies

Param(name, pos, type) == AstField(<<Ident(name, pos)>>, TypeName(type))
Receiver(names, type) == FieldList(<<AstField(names, type)>>)
Func(recv, params, results, body) ==
    FuncDecl(recv, Ident("h", 1), FuncType(params, results), BlockStmt(body))

\* func h() { body }
Functions == { Func(Nil, <<>>, <<>>, body) : body \in Bodies }

\* the headers: receivers, parameters, results
Methods ==
    { \* func h(a int, b string) (err error) { a := 1 }
      Func(Nil, <<Param("a", 10, "int"), Param("b", 11, "string")>>,
           <<Param("err", 12, "error")>>, <<DefineA>>),
      \* func h(_ int, _ string) { }
      Func(Nil, <<Param("_", 10, "int"), Param("_", 11, "string")>>, <<>>, <<>>),
      \* func h(a, b int) (_ int, _ error) { }
      Func(Nil, <<AstField(<<Ident("a", 10), Ident("b", 11)>>, TypeName("int"))>>,
           <<Param("_", 12, "int"), Param("_", 13, "error")>>, <<>>),
      \* func h(int) string { }
      Func(Nil, <<AstField(<<>>, TypeName("int"))>>, <<AstField(<<>>, TypeName("string"))>>,
           <<>>),
      \* func h(a int, b U) { }
      Func(Nil, <<Param("a", 10, "int"), Param("b", 11, "U")>>, <<>>, <<>>),
      \* func h(a int) (b U) { }
      Func(Nil, <<Param("a", 10, "int")>>, <<Param("b", 11, "U")>>, <<>>),
      \* func h(a int, a string) { }
      Func(Nil, <<Param("a", 10, "int"), Param("a", 11, "string")>>, <<>>, <<>>),
      \* func (r *T) h(a int) { r.x = a }
      Func(Receiver(<<Ident("r", 5)>>, StarExpr(TypeName("T"))), <<Param("a", 10, "int")>>,
           <<>>, <<Assign(<<SelectorExpr(Var("r"), "x")>>, <<Var("a")>>)>>),
      \* func (r T) h() { }
      Func(Receiver(<<Ident("r", 5)>>, TypeName("T")), <<>>, <<>>, <<>>),
      \* func (_ T) h() { }
      Func(Receiver(<<Ident("_", 5)>>, TypeName("T")), <<>>, <<>>, <<>>),
      \* func (T) h() { }
      Func(Receiver(<<>>, TypeName("T")), <<>>, <<>>, <<>>),
      \* func (r *U) h(a int) { }
      Func(Receiver(<<Ident("r", 5)>>, StarExpr(TypeName("U"))), <<Param("a", 10, "int")>>,
           <<>>, <<>>),
      \* func (r []T) h() { }
      Func(Receiver(<<Ident("r", 5)>>, ArrayType(TypeName("T"))), <<>>, <<>>, <<>>),
      \* func h(T int) (r T) { }
      Func(Nil, <<Param("T", 10, "int")>>, <<Param("r", 11, "T")>>, <<>>),
      \* func (r T) h(a U) (b int) { }
      Func(Receiver(<<Ident("r", 5)>>, TypeName("T")), <<Param("a", 10, "U")>>,
           <<Param("b", 11, "int")>>, <<>>),
      \* func h(a int)  declared only, defined in assembly
      FuncDecl(Nil, Ident("h", 1), FuncType(<<Param("a", 10, "int")>>, <<>>), Nil) }

FuncDecls == Functions \cup Methods

\* the value specs of the file level
ValueSpecs ==
    { \* var a int = 1
      ValueSpec(<<Ident("a", 20)>>, TypeName("int"), <<Lit>>),
      \* var a, b = f()
      ValueSpec(<<Ident("a", 20), Ident("b", 21)>>, Nil, <<Call0("f")>>),
      \* var a, _ = 1, "x"
      ValueSpec(<<Ident("a", 20), Ident("_", 21)>>, Nil, <<Lit, LitS>>),
      \* const c = iota
      ValueSpec(<<Ident("c", 20)>>, Nil, <<Var("iota")>>),
      \* const c = "x"
      ValueSpec(<<Ident("c", 20)>>, Nil, <<LitS>>),
      \* const d  (the type of the constant before it)
      ValueSpec(<<Ident("d", 20)>>, Nil, <<>>),
      \* var a U
      ValueSpec(<<Ident("a", 20)>>, TypeName("U"), <<>>),
      \* var a = z
      ValueSpec(<<Ident("a", 20)>>, Nil, <<Var("z")>>),
      \* var a = 1, 2
      ValueSpec(<<Ident("a", 20)>>, Nil, <<Lit, Lit>>),
      \* var a, b int = 1, 2
      ValueSpec(<<Ident("a", 20), Ident("b", 21)>>, TypeName("int"), <<Lit, Lit>>),
      \* var a, b int
      ValueSpec(<<Ident("a", 20), Ident("b", 21)>>, TypeName("int"), <<>>),
      \* const a, _, c = iota
      ValueSpec(<<Ident("a", 20), Ident("_", 21), Ident("c", 22)>>, Nil, <<Var("iota")>>),
      \* var a, b, c = 1, z
      ValueSpec(<<Ident("a", 20), Ident("b", 21), Ident("c", 22)>>, Nil, <<Lit, Var("z")>>) }

PreState == [st |-> SymbolTable, ct |-> ContractTable, alloc |-> allocated]

\* the operation run last: its name and argument, the stack and the contract
\* table it started from, and what it returned
ParserCall(op, arg, r, ret) ==
    [op |-> op, arg |-> arg, pre |-> PreState, err |-> r.err, panicked |-> r.panicked,
     log |-> r.log, emitted |-> r.emitted, ret |-> ret]

Current == ParserState(SymbolTable, ContractTable, lastConstType, allocated)

\* what a call leaves in the Config and the Parser
Leaves(r) ==
    /\ SymbolTable' = r.st
    /\ ContractTable' = r.ct
    /\ lastConstType' = r.lct
    /\ allocated' = r.alloc
    /\ ncalls' = ncalls + 1
    /\ ProjectFrame

InitParser ==
    /\ NoProject
    /\ SymbolTable = FileStack
    /\ ContractTable = [contracts |-> <<>>, virtual |-> 0]
    /\ lastConstType = NilType
    /\ allocated = <<>>
    /\ call = ParserCall("New", Nil, ParserState(FileStack, ContractTable, NilType, <<>>), <<>>)
    /\ ncalls = 0

\* a panic ends the program
Running == ~call.panicked /\ ncalls < MaxCalls

DoParseFuncBody ==
    /\ Running
    /\ \E funcDecl \in FuncDecls :
         \E r \in {ParseFuncBody(Current, funcDecl)} :
            /\ call' = ParserCall("ParseFuncBody", funcDecl, r, <<>>)
            /\ Leaves(r)

DoParseFuncDecl ==
    /\ Running
    /\ \E d \in Methods :
         \E r \in {ParseFuncDecl(Current, d)} :
            /\ call' = ParserCall("ParseFuncDecl", d, r.ps, <<r.def>>)
            /\ Leaves(r.ps)

DoParseValueSpec ==
    /\ Running
    /\ \E spec \in ValueSpecs :
         \E r \in {ParseValueSpec(Current, spec)} :
            /\ call' = ParserCall("ParseValueSpec", spec, r.ps, r.symbolsDef)
            /\ Leaves(r.ps)

NextParser ==
    \/ DoParseFuncBody
    \/ DoParseFuncDecl
    \/ DoParseValueSpec

SpecParser == InitParser /\ [][NextParser]_vars

(***************************************************************************)
(* The project parser (package parser): ProjectParser.Parse walks the      *)
(* package stack; a file whose imports are not in the global symbol table  *)
(* yet postpones its package behind the imported ones.  The file parser    *)
(* is a collaborator: a file or a postponed definition parses or fails.    *)
(***************************************************************************)
RootPackage == "unordered"

\* the import lists of a file of the root package, and the packages on disk
RootImports ==
    { <<>>, <<"b">>, <<"b", "c">>, <<"c", "b">>, <<"b", "b">>, <<"x">> }

RootFiles == { <<i>> : i \in RootImports } \cup { <<i, j>> : i, j \in {<<>>, <<"b">>, <<"c">>} }

\* b may import c and c may import b
Projects ==
    { [p \in {RootPackage, "b", "c"} |->
         CASE p = RootPackage -> root [] p = "b" -> <<b>> [] OTHER -> <<c>>] :
        root \in RootFiles, b \in {<<>>, <<"c">>}, c \in {<<>>, <<"b">>} }

FileContext(imports) == [Imports |-> imports, ImportsProcessed |-> FALSE]

\* createPackageContext: the files of the package, none processed yet;
\* getPackageFiles fails for a package that is in no location
createPackageContext(packagePath) ==
    IF packagePath \notin DOMAIN gopath THEN [err |-> TRUE, c |-> Nil]
    ELSE [err |-> FALSE,
          c |-> [PackagePath |-> packagePath, FileIndex |-> 0,
                 Files |-> [i \in 1 .. Len(gopath[packagePath]) |->
                              FileContext(gopath[packagePath][i])]]]

RECURSIVE processImportsFrom(_, _)
\* processImports: the imports that globalSymbolTable.Lookup does not find,
\* in the order of the import specs; "for _, spec := range imports" from i on
processImportsFrom(imports, i) ==
    IF i > Len(imports) THEN <<>>
    ELSE (IF imports[i] \in globalSymbolTable THEN <<>> ELSE <<imports[i]>>)
         \o processImportsFrom(imports, i + 1)

processImports(imports) == processImportsFrom(imports, 1)

RECURSIVE pushMissing(_, _, _)
\* "for _, spec := range missingImports": a context for each, put in front
pushMissing(stack, missingImports, i) ==
    IF i > Len(missingImports) THEN [err |-> FALSE, stack |-> stack]
    ELSE With([c \in {createPackageContext(missingImports[i])} |->
      IF c.err THEN [err |-> TRUE, stack |-> stack]
      ELSE pushMissing(<<c.c>> \o stack, missingImports, i + 1)])

\* what Parse has done so far: the step it took last, the package paths it
\* called globalSymbolTable.Add with (in order), and how it ended
ProjectCall(op, adds, err, panicked) ==
    [op |-> op, adds |-> adds, err |-> err, panicked |-> panicked]

InitProject ==
    /\ SymbolTable = New
    /\ ContractTable = [contracts |-> <<>>, virtual |-> 0]
    /\ lastConstType = NilType
    /\ allocated = <<>>
    /\ ncalls = 0
    /\ gopath \in Projects
    /\ packageStack = <<>>
    /\ globalSymbolTable = {}
    /\ call = ProjectCall("New", <<>>, FALSE, FALSE)

ParserFrame == UNCHANGED <<SymbolTable, ContractTable, lastConstType, allocated, ncalls, gopath>>

ParseRunning == call.op \in {"Parse", "Postpone", "File", "Store"} /\ ~call.err /\ ~call.panicked

\* the package at the top of the stack and the file its FileIndex is at
TopPackage == packageStack[1]

TopFile == TopPackage.Files[TopPackage.FileIndex + 1]

FilesLeft == TopPackage.FileIndex < Len(TopPackage.Files)

MissingImports ==
    IF TopFile.ImportsProcessed THEN <<>> ELSE processImports(TopFile.Imports)

\* Parse, up to the loop: the context of the input package is pushed
DoParse ==
    /\ call.op = "New"
    /\ \E c \in {createPackageContext(RootPackage)} :
         /\ packageStack' = IF c.err THEN packageStack ELSE <<c.c>>
         /\ call' = ProjectCall("Parse", <<>>, c.err, FALSE)
    /\ UNCHANGED globalSymbolTable
    /\ ParserFrame

\* the stack is followed down to MaxStack contexts from its top: the contexts
\* that a push moves deeper are not kept
TopOfStack(stack) ==
    IF Len(stack) <= MaxStack THEN stack ELSE SubSeq(stack, 1, MaxStack)

\* a file with imports not processed yet: their packages go in front of the
\* stack, the file is marked, "continue PACKAGE_STACK"
DoPostpone ==
    /\ ParseRunning
    /\ packageStack # <<>>
    /\ FilesLeft
    /\ MissingImports # <<>>
    /\ \E r \in {pushMissing(packageStack, MissingImports, 1)} :
         /\ packageStack' =
              IF r.err THEN TopOfStack(r.stack)
              ELSE TopOfStack(
                     [r.stack EXCEPT ![Len(r.stack) - Len(packageStack) + 1]
                                        .Files[TopPackage.FileIndex + 1].ImportsProcessed = TRUE])
         /\ call' = ProjectCall("Postpone", call.adds, r.err, FALSE)
    /\ UNCHANGED globalSymbolTable
    /\ ParserFrame

\* a file whose imports are all known: the file parser parses it (or returns
\* an error) and the FileIndex moves on
DoFile ==
    /\ ParseRunning
    /\ packageStack # <<>>
    /\ FilesLeft
    /\ MissingImports = <<>>
    /\ \E err \in BOOLEAN :
         /\ packageStack' = IF err THEN packageStack
                            ELSE [packageStack EXCEPT ![1].FileIndex = @ + 1]
         /\ call' = ProjectCall("File", call.adds, err, FALSE)
    /\ UNCHANGED globalSymbolTable
    /\ ParserFrame

\* global.Table.Add: a package that is stored already is an error
GlobalAdd(table, packagePath) ==
    IF packagePath \in table THEN [err |-> TRUE, table |-> table]
    ELSE [err |-> FALSE, table |-> table \cup {packagePath}]

\* all files processed: the postponed definitions are re-processed (or an
\* error is returned), the table of level 0 goes to the global symbol table
\* (an error of Add panics) and the package leaves the stack
DoStore ==
    /\ ParseRunning
    /\ packageStack # <<>>
    /\ ~FilesLeft
    /\ \E err \in BOOLEAN :
         IF err
         THEN /\ call' = ProjectCall("Store", call.adds, TRUE, FALSE)
              /\ UNCHANGED <<packageStack, globalSymbolTable>>
         ELSE \E r \in {GlobalAdd(globalSymbolTable, TopPackage.PackagePath)} :
                /\ globalSymbolTable' = r.table
                /\ packageStack' = IF r.err THEN packageStack ELSE Tail(packageStack)
                /\ call' = ProjectCall("Store", Append(call.adds, TopPackage.PackagePath),
                                       FALSE, r.err)
    /\ ParserFrame

\* the stack is empty: Parse returns nil
DoReturn ==
    /\ ParseRunning
    /\ packageStack = <<>>
    /\ call' = ProjectCall("Return", call.adds, FALSE, FALSE)
    /\ UNCHANGED <<packageStack, globalSymbolTable>>
    /\ ParserFrame

NextProject ==
    \/ DoParse
    \/ DoPostpone
    \/ DoFile
    \/ DoStore
    \/ DoReturn

SpecProject == InitProject /\ [][NextProject]_vars

\* Parse is one loop that nothing interrupts: a step that can be taken is taken
SpecProjectFair == SpecProject /\ WF_vars(NextProject)

(***************************************************************************)
(* Properties                                                              *)
(***************************************************************************)
LogIndex == 1 .. Len(call.log)

IsInsertion(e) == e.ev \in {"AddVariable", "AddDataType"}

\* C1: whatever ParseFuncBody returns (nil, an error of the header, an error
\* of a nested statement, a panic unwound through its deferred calls), the
\* stack is as deep as before the call and its level-0 table holds the same
\* entries.
C1_ParseFuncBodyRestoresStack ==
    call.op = "ParseFuncBody" =>
        /\ SymbolTable.Size = call.pre.st.Size
        /\ SymbolTable.Tables[1] = call.pre.st.Tables[1]

\* a body that failed in a nested block after it had declared variables in
\* the scopes it pushed
C1_FailedInNestedScope ==
    /\ call.op = "ParseFuncBody"
    /\ call.err # ""
    /\ \E i \in LogIndex :
         /\ call.log[i].ev = "AddVariable"
         /\ ~call.log[i].failed
         /\ call.log[i].level >= 2

\* C2: the statement parser never inserts a symbol named "_" into a symbol
\* table, whatever form declares it (receiver, parameter, result, assignment,
\* value spec, range, type-switch guard, select receive).
C2_NoBlankSymbol ==
    \A i \in LogIndex : IsInsertion(call.log[i]) => call.log[i].sym.Name # "_"

\* C3: for an identifier on the left of ":=", parseAssignStmt emits
\* PropagatesTo if and only if the identifier was not yet in the innermost
\* scope; for one that was, it emits IsCompatibleWith.  (The contract of a
\* declared identifier is the one emitted right after its insertion.)
C3_PropagatesIffNew ==
    \A i \in LogIndex :
        (call.log[i].ev = "AddVariable" /\ call.log[i].by = "assign") =>
            call.emitted[call.log[i].at + 1].k =
                (IF call.log[i].failed THEN IsCompatibleWithType ELSE PropagatesToType)

\* C4: the contract table only grows: after every call the table is what it
\* was before the call followed by the contracts the call appended, in the
\* order it appended them, also when the call returns an error.
C4_ContractsOnlyGrow ==
    call.op # "New" => ContractTable.contracts = call.pre.ct.contracts \o call.emitted

\* a call that appended contracts to a table that held some, and then failed
C4_FailedAfterContracts ==
    /\ call.op = "ParseFuncBody"
    /\ call.err # ""
    /\ call.emitted # <<>>
    /\ call.pre.ct.contracts # <<>>

DroppedBy == {"assign", "switch", "typeswitch", "range", "for"}

\* C5: an error of the expression parser, of the type parser or of a nested
\* statement met while a statement is parsed (the left-hand side of an
\* assignment, a case expression, the guard or a clause of a type switch, the
\* key or value of a range, the init or post statement of a for) is returned:
\* the call that met it returns a non-nil error.
C5_ErrorsReturned ==
    (\E i \in LogIndex : call.log[i].ev = "dropped" /\ call.log[i].by \in DroppedBy)
        => call.err # "" \/ call.panicked

DataTypesNamed(table, name) == {e \in table : e.kind = DataTypeSymbol /\ e.sym.Name = name}

\* type L struct { next *L }
RecursiveSpec ==
    TypeSpec(Ident("L", 20),
             StructType(<<AstField(<<Ident("next", 21)>>, StarExpr(TypeName("L")))>>))

RecursiveDef == Struct(<<[fname |-> "next", ftype |-> Pointer(Identifier("L", PackageName))]>>)

\* C6: a type spec in a function body is inserted twice, first with a null
\* def and then completed: each insertion leaves exactly one data-type entry
\* of that name in the current scope, the completing one with its def, and
\* "type L struct { next *L }" resolves its own name and ends with L defined.
C6_TwoPhaseTypeSpec ==
    /\ \A i \in LogIndex :
         (call.log[i].ev = "AddDataType" /\ ~call.log[i].failed) =>
            /\ DataTypesNamed(call.log[i].top, call.log[i].sym.Name)
                 = {Entry(DataTypeSymbol, call.log[i].sym)}
            /\ call.log[i].sym.Def # NilType =>
                 /\ i > 1
                 /\ call.log[i - 1].ev = "AddDataType"
                 /\ ~call.log[i - 1].failed
                 /\ call.log[i - 1].level = call.log[i].level
                 /\ call.log[i - 1].sym = [call.log[i].sym EXCEPT !.Def = NilType]
    /\ (/\ call.op = "ParseFuncBody"
        /\ call.arg.Body # Nil
        /\ call.arg.Body.List # <<>>
        /\ call.arg.Body.List[1] = DeclStmt(<<RecursiveSpec>>)
        /\ call.err # "sp.ParseFuncBody")
       => /\ Len(call.log) >= 2
          /\ call.log[2].sym = SymbolDef("L", PackageName, RecursiveDef, 0)
          /\ ~call.log[2].failed

\* the recursive type declared in a body: completed, one entry, def not null
C6_RecursiveTypeDeclared ==
    \E i \in LogIndex :
        /\ call.log[i].ev = "AddDataType"
        /\ ~call.log[i].failed
        /\ call.log[i].sym.Def = RecursiveDef
        /\ call.log[i].level = 2
        /\ Cardinality(DataTypesNamed(call.log[i].top, "L")) = 1

\* the range statement a function body consists of, if it is one that
\* declares its key and value over an expression whose type resolves to string
IsStringRange ==
    /\ call.op = "ParseFuncBody"
    /\ call.arg.Body # Nil
    /\ Len(call.arg.Body.List) = 1
    /\ call.arg.Body.List[1].k = "RangeStmt"
    /\ call.arg.Body.List[1].Tok = TokDEFINE
    /\ \E x \in {ExprParse(ParserState(call.pre.st, call.pre.ct, NilType, <<>>),
                            call.arg.Body.List[1].X)} :
          /\ x.err = ""
          /\ Len(x.DataTypeList) = 1
          /\ \E u \in {Underlying(call.pre.st, x.DataTypeList[1])} :
                /\ ~u.failed
                /\ u.def.k \in {"builtin", "identifier"}
                /\ u.def.def = "string"

\* the type a range statement declared the identifier with, as a set: empty
\* when it declared none
RangeDeclared(ident) ==
    { call.log[i].sym.Def : i \in { j \in LogIndex :
                                      /\ call.log[j].by = "range"
                                      /\ call.log[j].sym.Name = ident.Name
                                      /\ call.log[j].sym.Pos = ident.NamePos } }

RangeDeclares(ident, type) ==
    (ident # Nil /\ ident.k = "Ident" /\ ident.Name # "_") => RangeDeclared(ident) = {type}

\* C7: a range over a value whose type resolves (through one pointer and the
\* identifier chain) to Builtin{string} or to the identifier string declares
\* its key as Builtin{int} and its value as Builtin{rune}.
C7_RangeOverString ==
    IsStringRange =>
        /\ RangeDeclares(call.arg.Body.List[1].Key, Builtin("int", FALSE))
        /\ RangeDeclares(call.arg.Body.List[1].Value, Builtin("rune", FALSE))

\* for k, c := range s, with s of the named type S whose underlying is string
C7_RangeOverNamedString ==
    /\ IsStringRange
    /\ call.arg.Body.List[1].X = Var("s")
    /\ RangeDeclared(call.arg.Body.List[1].Key) = {Builtin("int", FALSE)}
    /\ RangeDeclared(call.arg.Body.List[1].Value) = {Builtin("rune", FALSE)}

AllKinds == {VariableSymbol, DataTypeSymbol, FunctionSymbol}

\* the levels (from 0) of a stack whose table holds the name as one of the kinds
LevelsHolding(s, name, kinds) ==
    { l \in 0 .. s.Size - 1 :
        \E e \in s.Tables[l + 1] : e.sym.Name = name /\ e.kind \in kinds }

TopLevel(levels) == CHOOSE l \in levels : \A m \in levels : m <= l

LookedUpKinds == IF call.op = "LookupVariable" THEN {VariableSymbol} ELSE AllKinds

\* C8: Lookup and LookupVariable fail only when no level holds the name, and
\* otherwise return the entry of the highest level that holds it.
C8_LookupTopDown ==
    call.op \in {"Lookup", "LookupVariable"} =>
        LET levels == LevelsHolding(call.pre, call.name, LookedUpKinds)
        IN /\ call.err <=> levels = {}
           /\ levels # {} =>
                \E e \in call.pre.Tables[TopLevel(levels) + 1] :
                    e.kind \in LookedUpKinds /\ e.sym = call.ret

\* a name looked up that a lower level holds with another definition
C8_ShadowedLookup ==
    /\ call.op \in {"Lookup", "LookupVariable"}
    /\ ~call.err
    /\ \E l \in LevelsHolding(call.pre, call.name, LookedUpKinds) :
         /\ l < TopLevel(LevelsHolding(call.pre, call.name, LookedUpKinds))
         /\ \E e \in call.pre.Tables[l + 1] : e.sym.Name = call.name /\ e.sym # call.ret

\* C9: Pop on an empty stack panics and leaves the stack as it was; Pop on a
\* stack with tables removes the topmost table and no other; a Push followed
\* by a Pop gives back the stack it started from.
C9_PopRemovesTop ==
    /\ call.op = "Pop" =>
         IF call.pre.Size = 0
         THEN call.panicked /\ SymbolTable = call.pre
         ELSE /\ ~call.panicked
              /\ SymbolTable.Size = call.pre.Size - 1
              /\ SymbolTable.Tables = SubSeq(call.pre.Tables, 1, call.pre.Size - 1)
    /\ Pop(Push(SymbolTable)) = [panicked |-> FALSE, s |-> SymbolTable]

\* Pop on the empty stack
C9_PopOnEmpty == call.op = "Pop" /\ call.pre.Size = 0 /\ call.panicked

\* C10: Reset(level) with 0 <= level <= Size-1 leaves exactly the tables of
\* the levels 0..level, unchanged; with any other level it returns an error
\* and leaves the stack as it was.
C10_ResetTruncates ==
    call.op = "Reset" =>
        IF 0 <= call.level /\ call.level <= call.pre.Size - 1
        THEN /\ ~call.err
             /\ SymbolTable.Size = call.level + 1
             /\ SymbolTable.Tables = SubSeq(call.pre.Tables, 1, call.level + 1)
        ELSE call.err /\ SymbolTable = call.pre

\* a Reset that dropped a table holding symbols and kept one holding symbols
C10_ResetDroppedTables ==
    /\ call.op = "Reset"
    /\ ~call.err
    /\ call.level < call.pre.Size - 1
    /\ call.pre.Tables[call.pre.Size] # NewTable
    /\ call.pre.Tables[call.level + 1] # NewTable

\* C11: in a run of ProjectParser.Parse, globalSymbolTable.Add is called at
\* most once for a package path, whoever imports the package.
C11_GlobalAddOncePerPackage ==
    \A i, j \in 1 .. Len(call.adds) : call.adds[i] = call.adds[j] => i = j

\* the contracts between a value and the name declared for it
RECURSIVE ValueContracts(_, _)
ValueContracts(emitted, i) ==
    IF i > Len(emitted) THEN <<>>
    ELSE (IF emitted[i].k \in {PropagatesToType, IsCompatibleWithType}
          THEN <<emitted[i]>> ELSE <<>>) \o ValueContracts(emitted, i + 1)

\* one value whose results go to the names, against one value for each name
TupleSpec(spec) ==
    /\ Len(spec.Values) = 1
    /\ ~(spec.Values[1].k = "Ident" /\ spec.Values[1].Name = "iota")

\* the positions of the names of a spec that are not "_" and have a value
RECURSIVE ValuedNames(_, _)
ValuedNames(spec, i) ==
    IF i > Len(spec.Names) THEN <<>>
    ELSE (IF spec.Names[i].Name # "_" /\ (TupleSpec(spec) \/ i <= Len(spec.Values))
          THEN <<i>> ELSE <<>>) \o ValuedNames(spec, i + 1)

ReturnedValueSpec == call.op = "ParseValueSpec" /\ call.err = "" /\ ~call.panicked

\* the type and the type variable of the value of the name at position n, as
\* the expression parser gives them at the start of the call
ValueOf(n) ==
    With([attr \in {ExprParse(ParserState(call.pre.st, call.pre.ct, NilType, <<>>),
                              call.arg.Values[IF TupleSpec(call.arg) THEN 1 ELSE n])} |->
      With([k \in {IF TupleSpec(call.arg) THEN n ELSE 1} |->
        [x |-> attr.TypeVarList[k],
         def |-> IF IsIota(attr.DataTypeList[k]) THEN Builtin("int", TRUE)
                 ELSE attr.DataTypeList[k]]])])

\* C12: when ParseValueSpec returns, the contracts between values and names
\* are, in the order of the names, one for each name that is not "_" and has
\* a value: from the value's type variable to the variable of the symbol,
\* IsCompatibleWith expecting the declared type T (the symbol's type) when
\* the spec has a type, PropagatesTo expecting the value's type (the
\* symbol's type) when it has none.
C12_OneContractPerValue ==
    ReturnedValueSpec =>
      \E cs \in {ValueContracts(call.emitted, 1)} :
        \E vn \in {ValuedNames(call.arg, 1)} :
          /\ Len(cs) = Len(vn)
          /\ Len(call.ret) >= Len(vn)
          /\ \A j \in 1 .. Len(vn) :
               /\ call.ret[j].Name = call.arg.Names[vn[j]].Name
               /\ cs[j].X = ValueOf(vn[j]).x
               /\ cs[j].Y = VariableFromSymbolDef(call.ret[j])
               /\ cs[j].ExpectedType = call.ret[j].Def
               /\ IF call.arg.Type # Nil
                  THEN /\ cs[j].k = IsCompatibleWithType
                       /\ call.ret[j].Def = TypeParse(call.pre.st, call.arg.Type).def
                  ELSE /\ cs[j].k = PropagatesToType
                       /\ call.ret[j].Def = ValueOf(vn[j]).def

\* var a, b int = 1, 2 returned a:int and b:int with two contracts
C12_TwoTypedValues ==
    /\ ReturnedValueSpec
    /\ call.arg.Type # Nil
    /\ Len(call.arg.Values) = 2
    /\ Len(call.ret) = 2
    /\ call.ret[1].Name = "a" /\ call.ret[1].Def = IntId
    /\ call.ret[2].Name = "b" /\ call.ret[2].Def = IntId
    /\ Len(ValueContracts(call.emitted, 1)) = 2
    /\ ValueContracts(call.emitted, 1)[1].k = IsCompatibleWithType
    /\ ValueContracts(call.emitted, 1)[2].Y.name = "b"

\* a constant group: "X = iota" without a type, then specs of one name that
\* elide the type and the value
IsIotaGroup(stmt) ==
    /\ stmt.k = "DeclStmt"
    /\ Len(stmt.Specs) >= 2
    /\ \A i \in 1 .. Len(stmt.Specs) :
         /\ stmt.Specs[i].k = "ValueSpec"
         /\ stmt.Specs[i].Type = Nil
         /\ Len(stmt.Specs[i].Names) = 1
         /\ stmt.Specs[i].Names[1].Name # "_"
         /\ stmt.Specs[i].Values = IF i = 1 THEN <<Var("iota")>> ELSE <<>>

ParsedIotaGroup ==
    /\ call.op = "ParseFuncBody"
    /\ call.arg.Body # Nil
    /\ Len(call.arg.Body.List) = 1
    /\ IsIotaGroup(call.arg.Body.List[1])

\* C13: a function body that is the constant group "A = iota; B; C" parses;
\* every name of the group is declared, in order, with the type
\* Builtin{int, untyped}; the only contract emitted is one PropagatesTo, to
\* the variable of the first name.
C13_IotaGroup ==
    ParsedIotaGroup =>
      \E specs \in {call.arg.Body.List[1].Specs} :
        /\ call.err = "" /\ ~call.panicked
        /\ Len(call.log) = Len(specs)
        /\ \A i \in 1 .. Len(specs) :
             /\ call.log[i].ev = "AddVariable"
             /\ ~call.log[i].failed
             /\ call.log[i].sym.Name = specs[i].Names[1].Name
             /\ call.log[i].sym.Def = Builtin("int", TRUE)
        /\ Len(call.emitted) = 1
        /\ call.emitted[1].k = PropagatesToType
        /\ call.emitted[1].Y.name = specs[1].Names[1].Name
        /\ call.emitted[1].ExpectedType = Builtin("int", TRUE)

\* const ( A = iota; B; C ) was parsed and C was declared
C13_ThreeConstants ==
    /\ ParsedIotaGroup
    /\ Len(call.log) = 3
    /\ call.log[3].sym.Name = "C"
    /\ call.log[3].sym.Def = Builtin("int", TRUE)

\* a function without parameters whose body is one statement was parsed
ParsedOneStatement ==
    /\ call.op = "ParseFuncBody"
    /\ call.arg.Recv = Nil
    /\ call.arg.Type.Params = <<>> /\ call.arg.Type.Results = <<>>
    /\ call.arg.Body # Nil
    /\ Len(call.arg.Body.List) = 1

\* identifiers assigned from a single expression of the given kind
IsCommaOk(stmt, kind) ==
    /\ stmt.k = "AssignStmt"
    /\ Len(stmt.Rhs) = 1
    /\ stmt.Rhs[1].k = kind
    /\ \A i \in 1 .. Len(stmt.Lhs) : stmt.Lhs[i].k = "Ident"

\* what the expression parser gives for e at the start of the call
PreParse(e) == ExprParse(ParserState(call.pre.st, call.pre.ct, NilType, <<>>), e)

\* the symbol ":=" declares for an identifier and a type, and the contract
\* that goes with it (none for "_")
Declared(id, def) == SymbolDef(id.Name, PackageName, def, id.NamePos)

DefineContract(id, x, def) ==
    IF id.Name = "_" THEN <<>>
    ELSE <<PropagatesTo(x, VariableFromSymbolDef(Declared(id, def)), def)>>

DeclaredBy(id, def) == IF id.Name = "_" THEN <<>> ELSE <<Declared(id, def)>>

\* the symbols AddVariable was called with, in order
RECURSIVE AddedVariables(_, _)
AddedVariables(log, i) ==
    IF i > Len(log) THEN <<>>
    ELSE (IF log[i].ev = "AddVariable" THEN <<log[i].sym>> ELSE <<>>)
         \o AddedVariables(log, i + 1)

\* C14 (amended): for "v, ok := m[key]" (two identifiers, one index
\* expression that the expression parser accepts) the statement succeeds, the
\* contracts emitted are those of one parse of the index expression followed
\* by PropagatesTo from its type variable to v and PropagatesTo from
\* Constant(Builtin{bool}) to ok; v is declared with the type of the index
\* expression and ok with Builtin{bool}; "_" gets neither a symbol nor a
\* contract.  With three or more identifiers the statement is an error.
C14_IndexDefine ==
    ParsedOneStatement =>
      \E stmt \in {call.arg.Body.List[1]} :
        (IsCommaOk(stmt, "IndexExpr") /\ stmt.Tok = TokDEFINE) =>
          \E rhs \in {PreParse(stmt.Rhs[1])} :
            /\ Len(stmt.Lhs) > 2 => call.err # ""
            /\ (Len(stmt.Lhs) = 2 /\ rhs.err = "") =>
                 /\ call.err = "" /\ ~call.panicked
                 /\ call.emitted =
                      rhs.ps.emitted
                      \o DefineContract(stmt.Lhs[1], rhs.TypeVarList[1], rhs.DataTypeList[1])
                      \o DefineContract(stmt.Lhs[2], Constant(PackageName, BoolType), BoolType)
                 /\ AddedVariables(call.log, 1) =
                      DeclaredBy(stmt.Lhs[1], rhs.DataTypeList[1])
                      \o DeclaredBy(stmt.Lhs[2], BoolType)

\* v, ok := m["k"] declared v as int and ok as bool
C14_ValueAndOk ==
    /\ ParsedOneStatement
    /\ IsCommaOk(call.arg.Body.List[1], "IndexExpr")
    /\ call.err = ""
    /\ Len(call.log) = 2
    /\ call.log[1].sym.Name = "v" /\ call.log[1].sym.Def = IntId
    /\ call.log[2].sym.Name = "ok" /\ call.log[2].sym.Def = BoolType
    /\ Len(call.emitted) = 3
    /\ call.emitted[1].k = IsIndexableType
    /\ call.emitted[3].X = Constant(PackageName, BoolType)

\* C14 as stated: an assignment from a single index expression with a number
\* of left-hand sides other than two is an error.
C14_IndexNotTwoIsError ==
    ParsedOneStatement =>
      \E stmt \in {call.arg.Body.List[1]} :
        (IsCommaOk(stmt, "IndexExpr") /\ stmt.Tok = TokDEFINE /\ Len(stmt.Lhs) # 2)
          => call.err # ""

\* the positions of a contract in a sequence of contracts
Positions(emitted, c) == { i \in 1 .. Len(emitted) : emitted[i] = c }

\* C15: for two identifiers assigned from a type assertion x.(T) whose x and
\* T parse, the contracts of x are followed by one
\* IsCompatibleWith(xTV, Constant(T)) expecting T, which is emitted once, with
\* "_" in slot 0 as well, before any contract of the left-hand sides; under
\* ":=" the statement succeeds, slot 0 is declared with T and slot 1 with
\* Builtin{bool}, each with a PropagatesTo contract from Constant(T) and
\* from Constant(Builtin{bool}).
C15_TypeAssertCommaOk ==
    ParsedOneStatement =>
      \E stmt \in {call.arg.Body.List[1]} :
        (IsCommaOk(stmt, "TypeAssertExpr") /\ Len(stmt.Lhs) = 2) =>
          \E x \in {PreParse(stmt.Rhs[1].X)} :
            \E t \in {TypeParse(call.pre.st, stmt.Rhs[1].Type)} :
              (x.err = "" /\ Len(x.DataTypeList) = 1 /\ ~t.failed) =>
                \E c \in {IsCompatibleWith(x.TypeVarList[1], Constant(PackageName, t.def),
                                           t.def, FALSE)} :
                  /\ ~call.panicked
                  /\ Positions(call.emitted, c) = {Len(x.ps.emitted) + 1}
                  /\ \A i \in 1 .. Len(x.ps.emitted) : call.emitted[i] = x.ps.emitted[i]
                  /\ stmt.Tok = TokDEFINE =>
                       /\ call.err = ""
                       /\ call.emitted =
                            x.ps.emitted \o <<c>>
                            \o DefineContract(stmt.Lhs[1], Constant(PackageName, t.def), t.def)
                            \o DefineContract(stmt.Lhs[2], Constant(PackageName, BoolType),
                                              BoolType)
                       /\ AddedVariables(call.log, 1) =
                            DeclaredBy(stmt.Lhs[1], t.def) \o DeclaredBy(stmt.Lhs[2], BoolType)

\* _, ok := i.(T) emitted the IsCompatibleWith of the assertion and the
\* PropagatesTo of ok
C15_BlankTypeAssert ==
    /\ ParsedOneStatement
    /\ IsCommaOk(call.arg.Body.List[1], "TypeAssertExpr")
    /\ call.arg.Body.List[1].Lhs[1].Name = "_"
    /\ call.err = ""
    /\ Len(call.emitted) = 2
    /\ call.emitted[1].k = IsCompatibleWithType
    /\ call.emitted[1].ExpectedType = Identifier("T", PackageName)
    /\ call.emitted[2].k = PropagatesToType
    /\ Len(call.log) = 1
    /\ call.log[1].sym.Name = "ok"

\* a function without parameters was parsed whose body starts with
\* "for key, value := range X", the key and the value identifiers (or absent)
ParsedRangeDefine ==
    /\ call.op = "ParseFuncBody"
    /\ call.arg.Recv = Nil
    /\ call.arg.Type.Params = <<>> /\ call.arg.Type.Results = <<>>
    /\ call.arg.Body # Nil
    /\ call.arg.Body.List # <<>>
    /\ call.arg.Body.List[1].k = "RangeStmt"
    /\ call.arg.Body.List[1].Tok = TokDEFINE
    /\ call.arg.Body.List[1].Key = Nil \/ call.arg.Body.List[1].Key.k = "Ident"
    /\ call.arg.Body.List[1].Value = Nil \/ call.arg.Body.List[1].Value.k = "Ident"

\* the symbol and the contract of the key or the value of a range
RangeDeclaredBy(id, def) ==
    IF id = Nil THEN <<>> ELSE DeclaredBy(id, def)

RangeContract(id, x, def) ==
    IF id = Nil THEN <<>> ELSE DefineContract(id, x, def)

\* the first n elements of a sequence that has them
Prefix(seq, n) == [i \in 1 .. n |-> seq[i]]

\* C16: for a range with ":=" over an X that parses, the contracts of X are
\* followed by IsRangeable(xTV) and, over a slice, by PropagatesTo from
\* RangeKey(xTV) to the key and from RangeValue(xTV) to the value, in that
\* order, for the identifiers that are not "_", the key declared as int and
\* the value as the element type.  The body sees the key and the value (what
\* it declares from them has their types); a statement after the range that
\* names the key or the value does not resolve it, and the stack is the one
\* of before when the function returns.
C16_RangeDefine ==
    ParsedRangeDefine =>
      \E stmt \in {call.arg.Body.List[1]} :
        \E x \in {PreParse(stmt.X)} :
          (x.err = "" /\ Len(x.DataTypeList) = 1) =>
            \E n \in {Len(x.ps.emitted)} :
              /\ Len(call.emitted) > n
              /\ Prefix(call.emitted, n) = x.ps.emitted
              /\ call.emitted[n + 1] = IsRangeable(x.TypeVarList[1])
              /\ x.DataTypeList[1].k = "slice" =>
                   \E kv \in {[c |-> RangeContract(stmt.Key, MakeRangeKey(x.TypeVarList[1]),
                                                   Builtin("int", FALSE))
                                     \o RangeContract(stmt.Value,
                                                      MakeRangeValue(x.TypeVarList[1]),
                                                      x.DataTypeList[1].elem),
                               d |-> RangeDeclaredBy(stmt.Key, Builtin("int", FALSE))
                                     \o RangeDeclaredBy(stmt.Value, x.DataTypeList[1].elem)]} :
                     \E added \in {AddedVariables(call.log, 1)} :
                       /\ Len(call.emitted) >= n + 1 + Len(kv.c)
                       /\ Prefix(call.emitted, n + 1 + Len(kv.c))
                            = x.ps.emitted \o <<call.emitted[n + 1]>> \o kv.c
                       /\ Len(added) >= Len(kv.d)
                       /\ Prefix(added, Len(kv.d)) = kv.d
                       /\ \A i \in 1 .. Len(kv.d) :
                            /\ call.log[i].level = call.pre.st.Size + 2
                            /\ ~call.log[i].failed
                       /\ stmt.Body.List = RangeScope(stmt.X, Nil)[1].Body.List =>
                            /\ Len(added) >= 4
                            /\ added[3].Def = Builtin("int", FALSE)
                            /\ added[4].Def = x.DataTypeList[1].elem
                       /\ (/\ Len(call.arg.Body.List) = 2
                           /\ call.arg.Body.List[2].k = "AssignStmt"
                           /\ call.arg.Body.List[2].Rhs[1] \in {Var("k"), Var("v")})
                            => /\ call.err # ""
                               /\ \A i \in 1 .. Len(added) : added[i].Name # "c"
              /\ SymbolTable = call.pre.st

\* for k, v := range xs { a, b := k, v }; c := k  declared a and b from the
\* key and the value and failed to resolve k after the range
C16_KeyGoneAfterRange ==
    /\ ParsedRangeDefine
    /\ call.arg.Body.List = RangeScope(Var("xs"), Define(<<Ident("c", 40)>>, <<Var("k")>>))
    /\ call.err # ""
    /\ Len(call.log) = 4
    /\ call.log[3].sym.Name = "a"
    /\ call.log[3].level = call.log[1].level + 1
    /\ Len(call.emitted) = 5

\* a function without parameters was parsed whose body starts with a select
\* statement
ParsedSelect ==
    /\ call.op = "ParseFuncBody"
    /\ call.arg.Recv = Nil
    /\ call.arg.Type.Params = <<>> /\ call.arg.Type.Results = <<>>
    /\ call.arg.Body # Nil
    /\ call.arg.Body.List # <<>>
    /\ call.arg.Body.List[1].k = "SelectStmt"

\* the log entries of the variables that "case v := <-ch" declared: the
\* contract before the insertion is the IsReceiveableFrom of the clause
Received ==
    { i \in LogIndex :
        /\ call.log[i].ev = "AddVariable"
        /\ call.log[i].by = "select"
        /\ call.log[i].at >= 1
        /\ call.emitted[call.log[i].at].k = IsReceiveableFromType }

\* the clauses "case id := <-x" of the select statement that declare sym
ClausesOf(sym) ==
    { c \in 1 .. Len(call.arg.Body.List[1].Body.List) :
        \E comm \in {call.arg.Body.List[1].Body.List[c].Comm} :
          /\ comm # Nil
          /\ comm.k = "AssignStmt"
          /\ comm.Tok = TokDEFINE
          /\ comm.Lhs[1] = Ident(sym.Name, sym.Pos) }

\* the expressions that name a received variable of the select statement
NamesReceived(e) ==
    /\ e.k = "Ident"
    /\ \E c \in 1 .. Len(call.arg.Body.List[1].Body.List) :
         \E comm \in {call.arg.Body.List[1].Body.List[c].Comm} :
           /\ comm # Nil
           /\ comm.k = "AssignStmt"
           /\ comm.Tok = TokDEFINE
           /\ comm.Lhs[1].k = "Ident"
           /\ comm.Lhs[1].Name = e.Name

\* the contract is one of the type variable y
Relates(c, y) == \E f \in DOMAIN c \cap {"X", "Y"} : c[f] = y

\* C17: for every variable v that a clause "case v := <-ch" of a select
\* statement declares, the clause emits IsReceiveableFrom(TV(ch), y) and right
\* after it PropagatesTo(y, v), where y is a virtual variable whose id was
\* not allocated before the call and that no contract of the table or of the
\* call names before; v has the element type of ch and is inserted into a
\* table of its own, one level above the body of the function.  A clause or
\* a statement after the select that names a received variable fails to
\* resolve it, and the stack is the one of before when the function returns,
\* whether the clause succeeded or failed.
C17_SelectReceive ==
    ParsedSelect =>
      /\ \A i \in Received :
           \E e \in {call.log[i]} :
             \E recv \in {call.emitted[e.at]} :
               /\ ClausesOf(e.sym) # {}
               /\ \A c \in ClausesOf(e.sym) :
                    \E ch \in {PreParse(call.arg.Body.List[1].Body.List[c].Comm.Rhs[1].X)} :
                      /\ recv.X = ch.TypeVarList[1]
                      /\ e.sym.Def = ch.DataTypeList[1].value
               /\ recv.Y.k = "VirtualVar"
               /\ recv.Y.id >= call.pre.ct.virtual
               /\ recv.Y.id < ContractTable.virtual
               /\ \A p \in 1 .. Len(call.pre.ct.contracts) :
                    ~Relates(call.pre.ct.contracts[p], recv.Y)
               /\ \A p \in 1 .. (e.at - 1) : ~Relates(call.emitted[p], recv.Y)
               /\ Len(call.emitted) > e.at
               /\ call.emitted[e.at + 1] =
                    PropagatesTo(recv.Y, VariableFromSymbolDef(e.sym), NilType)
               /\ ~e.failed
               /\ e.level = call.pre.st.Size + 2
               /\ e.top = {Entry(VariableSymbol, e.sym)}
      /\ (/\ Len(call.arg.Body.List) = 2
          /\ call.arg.Body.List[2].k = "AssignStmt"
          /\ NamesReceived(call.arg.Body.List[2].Rhs[1])) => call.err # ""
      /\ (\E c \in 1 .. Len(call.arg.Body.List[1].Body.List) :
            \E comm \in {call.arg.Body.List[1].Body.List[c].Comm} :
              /\ comm # Nil
              /\ comm.k = "SendStmt"
              /\ NamesReceived(comm.Value)) => call.err # ""
      /\ SymbolTable = call.pre.st

\* two clauses received into v and w with two virtual variables, after an
\* earlier call had allocated virtual variables of its own
C17_TwoReceives ==
    /\ ParsedSelect
    /\ call.err = ""
    /\ call.pre.ct.virtual > 0
    /\ \E i, j \in Received :
         /\ call.log[i].sym.Name = "v"
         /\ call.log[j].sym.Name = "w"
         /\ call.emitted[call.log[i].at].Y # call.emitted[call.log[j].at].Y

\* C18: a variable that a declaration statement of a function body declares
\* a second time in the same scope is an error: the call that met the
\* failed insertion returns a non-nil error.
C18_DuplicateDeclarationIsError ==
    call.op = "ParseFuncBody" =>
      \A i \in LogIndex :
        (call.log[i].ev = "AddVariable" /\ call.log[i].by = "decl" /\ call.log[i].failed)
          => (call.err # "" \/ call.panicked)

\* C19: the symbols of a value spec that is parsed below file level (the
\* ones a declaration statement inserts at a level above 0) have an empty
\* package.
C19_NoPackageBelowFileLevel ==
    \A i \in LogIndex :
      (call.log[i].ev = "AddVariable" /\ call.log[i].by = "decl" /\ call.log[i].level > 0)
        => call.log[i].sym.Package = ""

\* the positions of the names of a spec after its values that are not "_"
RECURSIVE TrailingNames(_, _)
TrailingNames(spec, i) ==
    IF i > Len(spec.Names) THEN <<>>
    ELSE (IF spec.Names[i].Name # "_" /\ i > Len(spec.Values) THEN <<i>> ELSE <<>>)
         \o TrailingNames(spec, i + 1)

\* the values of the spec of the call all parse to one result, and so does
\* its type
ValuesParse ==
    /\ \A i \in 1 .. Len(call.arg.Values) :
         /\ PreParse(call.arg.Values[i]).err = ""
         /\ Len(PreParse(call.arg.Values[i]).DataTypeList) = 1
    /\ call.arg.Type # Nil => ~TypeParse(call.pre.st, call.arg.Type).failed

\* the names after the values are typed with the type of the spec, or with
\* lastConstType without one; the call fails if and only if there is neither;
\* no contract is for a name after the values
TrailingTyped ==
    /\ ~call.panicked
    /\ call.err # "" <=> (call.arg.Type = Nil /\ lastConstType = NilType)
    /\ call.err = "" =>
         \E vn \in {ValuedNames(call.arg, 1)} :
           \E tn \in {TrailingNames(call.arg, 1)} :
             /\ Len(call.ret) = Len(vn) + Len(tn)
             /\ \A j \in 1 .. Len(tn) :
                  /\ call.ret[Len(vn) + j].Name = call.arg.Names[tn[j]].Name
                  /\ call.ret[Len(vn) + j].Def =
                       IF call.arg.Type # Nil
                       THEN TypeParse(call.pre.st, call.arg.Type).def
                       ELSE lastConstType
             /\ Len(ValueContracts(call.emitted, 1)) = Len(vn)

\* C20 (amended): when ParseValueSpec has more names than values, the values
\* are not a single value with several results, and the type and the values
\* parse, the names after the values are typed with the type of the spec, or
\* with lastConstType without one; the call fails if and only if there is
\* neither, and no contract is emitted for these names.
C20_TrailingNames ==
    (/\ call.op = "ParseValueSpec"
     /\ Len(call.arg.Names) > Len(call.arg.Values)
     /\ ~TupleSpec(call.arg)
     /\ ValuesParse) => TrailingTyped

\* const a, _, c = iota returned a and c, c with the type iota left in
\* lastConstType, and one contract (for a)
C20_TrailingAfterIota ==
    /\ call.op = "ParseValueSpec"
    /\ call.err = ""
    /\ Len(call.arg.Names) = 3
    /\ call.arg.Values = <<Var("iota")>>
    /\ Len(call.ret) = 2
    /\ call.ret[2].Name = "c"
    /\ call.ret[2].Def = Builtin("int", TRUE)
    /\ lastConstType = Builtin("int", TRUE)
    /\ Len(call.emitted) = 1

\* C20 as stated: whenever ParseValueSpec has more names than values
C20_TrailingNamesAsStated ==
    (/\ call.op = "ParseValueSpec"
     /\ Len(call.arg.Names) > Len(call.arg.Values)) => TrailingTyped

\* a declaration group of one spec that has neither a type nor a value
IsBareGroup(stmt) ==
    /\ stmt.k = "DeclStmt"
    /\ Len(stmt.Specs) = 1
    /\ stmt.Specs[1].k = "ValueSpec"
    /\ stmt.Specs[1].Type = Nil
    /\ stmt.Specs[1].Values = <<>>

\* C21: lastConstType does not outlive a declaration group: a group whose
\* only spec elides the type and the value has no type to take over from an
\* earlier group or an earlier function body, and parsing it fails with the
\* missing-type error.
C21_LastConstTypeReset ==
    (ParsedOneStatement /\ IsBareGroup(call.arg.Body.List[1])) => call.err # ""

\* the type and the type variable a call with the results attr gives to the
\* left-hand side i: a result, or after the results of a call into C the
\* error of the call
CallSlot(attr, i) ==
    IF i <= Len(attr.DataTypeList)
    THEN [def |-> attr.DataTypeList[i], tv |-> attr.TypeVarList[i]]
    ELSE [def |-> Builtin("error", FALSE), tv |-> CGO]

\* the contracts and the symbols of the identifiers lhs[i], lhs[i+1], ...
\* declared from the slots of a call
RECURSIVE CallContracts(_, _, _)
CallContracts(lhs, attr, i) ==
    IF i > Len(lhs) THEN <<>>
    ELSE DefineContract(lhs[i], CallSlot(attr, i).tv, CallSlot(attr, i).def)
         \o CallContracts(lhs, attr, i + 1)

RECURSIVE CallSymbols(_, _, _)
CallSymbols(lhs, attr, i) ==
    IF i > Len(lhs) THEN <<>>
    ELSE DeclaredBy(lhs[i], CallSlot(attr, i).def) \o CallSymbols(lhs, attr, i + 1)

\* C22: identifiers declared with ":=" from one call that parses and returns
\* k values, their number not 1: the statement succeeds if and only if there
\* are k identifiers, or k+1 and the call is a selector on the identifier C;
\* then the contracts are those of one parse of the call followed by one
\* PropagatesTo for each identifier that is not "_", identifier i from
\* result i, identifier k+1 from CGO with the type Builtin{error}.
C22_CallResults ==
    ParsedOneStatement =>
      \E stmt \in {call.arg.Body.List[1]} :
        (IsCommaOk(stmt, "CallExpr") /\ stmt.Tok = TokDEFINE /\ Len(stmt.Lhs) # 1) =>
          \E attr \in {PreParse(stmt.Rhs[1])} :
            attr.err = "" =>
              /\ ~call.panicked
              /\ call.err = "" <=>
                   \/ Len(stmt.Lhs) = Len(attr.DataTypeList)
                   \/ IsCgoCall(stmt.Rhs[1]) /\ Len(stmt.Lhs) = Len(attr.DataTypeList) + 1
              /\ call.err = "" =>
                   /\ call.emitted = attr.ps.emitted \o CallContracts(stmt.Lhs, attr, 1)
                   /\ AddedVariables(call.log, 1) = CallSymbols(stmt.Lhs, attr, 1)
              /\ call.err # "" => call.emitted = attr.ps.emitted

\* a, b, e := C.f2() declared e as the error of the call
C22_CgoError ==
    /\ ParsedOneStatement
    /\ IsCommaOk(call.arg.Body.List[1], "CallExpr")
    /\ IsCgoCall(call.arg.Body.List[1].Rhs[1])
    /\ call.err = ""
    /\ Len(call.log) = 3
    /\ call.log[3].sym.Def = Builtin("error", FALSE)
    /\ call.log[2].sym.Def = StringId
    /\ Len(call.emitted) = 4
    /\ call.emitted[1].k = IsInvocableType
    /\ call.emitted[4].X = CGO

\* an assignment whose sides differ in length and whose right-hand side is
\* not exactly one call, index or type assertion
IsArityMismatch(stmt) ==
    /\ stmt.k = "AssignStmt"
    /\ Len(stmt.Lhs) # Len(stmt.Rhs)
    /\ ~ /\ Len(stmt.Rhs) = 1
         /\ stmt.Rhs[1].k \in {"CallExpr", "IndexExpr", "TypeAssertExpr"}

\* C23: a function body of one assignment whose sides differ in length and
\* whose right-hand side is not exactly one call, index or type assertion
\* returns an error, adds no contract, and the parser does not panic.
C23_ArityMismatchIsError ==
    (ParsedOneStatement /\ IsArityMismatch(call.arg.Body.List[1])) =>
        /\ ~call.panicked
        /\ call.err # ""
        /\ call.emitted = <<>>

\* a function body of one "for key, value = range X {}" whose key and value
\* are identifiers, in parentheses or not
ParsedRangeAssign ==
    /\ ParsedOneStatement
    /\ call.arg.Body.List[1].k = "RangeStmt"
    /\ call.arg.Body.List[1].Tok = TokASSIGN
    /\ call.arg.Body.List[1].Key # Nil
    /\ call.arg.Body.List[1].Value # Nil
    /\ StripParens(call.arg.Body.List[1].Key).k = "Ident"
    /\ StripParens(call.arg.Body.List[1].Value).k = "Ident"

\* the contract of an assigned key or value that is the variable id
RangeAssignContract(rangeTV, id) ==
    IF id.Name = "_" THEN <<>>
    ELSE <<IsCompatibleWith(rangeTV, PreParse(id).TypeVarList[1],
                            PreParse(id).DataTypeList[1], FALSE)>>

\* C24: a range with "=" over a slice whose key and value are variables that
\* resolve, in parentheses or not, returns no error, and the contracts of X
\* are followed by IsRangeable(xTV), IsCompatibleWith(RangeKey(xTV), keyTV,
\* keyType) and IsCompatibleWith(RangeValue(xTV), valueTV, valueType).
C24_RangeAssignStripsParens ==
    ParsedRangeAssign =>
      \E stmt \in {call.arg.Body.List[1]} :
        \E x \in {PreParse(stmt.X)} :
          (/\ x.err = "" /\ Len(x.DataTypeList) = 1 /\ x.DataTypeList[1].k = "slice"
           /\ PreParse(StripParens(stmt.Key)).err = ""
           /\ PreParse(StripParens(stmt.Value)).err = "") =>
            /\ call.err = ""
            /\ ~call.panicked
            /\ call.emitted
                 = x.ps.emitted \o <<IsRangeable(x.TypeVarList[1])>>
                   \o RangeAssignContract(MakeRangeKey(x.TypeVarList[1]),
                                          StripParens(stmt.Key))
                   \o RangeAssignContract(MakeRangeValue(x.TypeVarList[1]),
                                          StripParens(stmt.Value))

\* a function without parameters was parsed whose body starts with a type
\* switch without an init statement, over "id := x.(type)" or "x.(type)",
\* with clauses whose types all resolve
ParsedTypeSwitch ==
    /\ call.op = "ParseFuncBody"
    /\ call.arg.Recv = Nil
    /\ call.arg.Type.Params = <<>> /\ call.arg.Type.Results = <<>>
    /\ call.arg.Body # Nil
    /\ call.arg.Body.List # <<>>
    /\ call.arg.Body.List[1].k = "TypeSwitchStmt"
    /\ call.arg.Body.List[1].Init = Nil
    /\ \E assign \in {call.arg.Body.List[1].Assign} :
         \/ assign.k = "ExprStmt" /\ assign.X.k = "TypeAssertExpr"
         \/ /\ assign.k = "AssignStmt"
            /\ Len(assign.Lhs) = 1 /\ assign.Lhs[1].k = "Ident"
            /\ Len(assign.Rhs) = 1 /\ assign.Rhs[1].k = "TypeAssertExpr"
    /\ \A c \in 1 .. Len(call.arg.Body.List[1].Body.List) :
         \E clause \in {call.arg.Body.List[1].Body.List[c]} :
           /\ clause.k = "CaseClause"
           /\ \A t \in 1 .. Len(clause.List) : ~TypeParse(call.pre.st, clause.List[t]).failed

\* the expression switched on and the name bound by the guard ("_" if none)
GuardX(assign) == IF assign.k = "ExprStmt" THEN assign.X.X ELSE assign.Rhs[1].X

GuardName(assign) == IF assign.k = "ExprStmt" THEN "_" ELSE assign.Lhs[1].Name

\* the type the guard variable has in a clause
BoundType(clause) ==
    IF Len(clause.List) = 1 THEN TypeParse(call.pre.st, clause.List[1]).def ELSE Interface

\* the guard variable as a clause declares it
BoundIn(name, clause) == Ident(name, clause.Case)

\* one weak IsCompatibleWith for each type clause.List[i], clause.List[i+1], ...
RECURSIVE CaseTypeContracts(_, _, _)
CaseTypeContracts(list, xTV, i) ==
    IF i > Len(list) THEN <<>>
    ELSE <<IsCompatibleWith(Constant(PackageName, TypeParse(call.pre.st, list[i]).def),
                            xTV, NilType, TRUE)>>
         \o CaseTypeContracts(list, xTV, i + 1)

\* the contract of the guard variable in a clause
BoundContract(name, clause) ==
    IF name = "_" THEN <<>>
    ELSE <<PropagatesTo(Constant(PackageName, BoundType(clause)),
                        VariableFromSymbolDef(Declared(BoundIn(name, clause),
                                                       BoundType(clause))),
                        NilType)>>

\* the contracts and the symbols of the clauses i, i+1, ... with empty bodies
RECURSIVE SwitchContracts(_, _, _, _)
SwitchContracts(clauses, xTV, name, i) ==
    IF i > Len(clauses) THEN <<>>
    ELSE CaseTypeContracts(clauses[i].List, xTV, 1) \o BoundContract(name, clauses[i])
         \o SwitchContracts(clauses, xTV, name, i + 1)

RECURSIVE SwitchSymbols(_, _, _)
SwitchSymbols(clauses, name, i) ==
    IF i > Len(clauses) THEN <<>>
    ELSE DeclaredBy(BoundIn(name, clauses[i]), BoundType(clauses[i]))
         \o SwitchSymbols(clauses, name, i + 1)

\* the clauses all have empty bodies
EmptyClauses(clauses) == \A c \in 1 .. Len(clauses) : clauses[c].Body = <<>>

RECURSIVE FieldNames(_, _)
FieldNames(fields, i) ==
    IF i > Len(fields) THEN <<>> ELSE fields[i].Names \o FieldNames(fields, i + 1)

\* the names of the parameters followed by those of the results
SignatureNames(type) == FieldNames(type.Params, 1) \o FieldNames(type.Results, 1)

\* every type of the signature resolves at the start of the call
SignatureParses(type) ==
    /\ \A i \in 1 .. Len(type.Params) : ~TypeParse(call.pre.st, type.Params[i].Type).failed
    /\ \A i \in 1 .. Len(type.Results) : ~TypeParse(call.pre.st, type.Results[i].Type).failed

\* the number of contracts of the receiver: one if it is named
ReceiverContracts(recv) == IF recv # Nil /\ recv.List[1].Names # <<>> THEN 1 ELSE 0

\* the log entries of the parameters and results
HeadEntries == { i \in LogIndex : call.log[i].by = "head" }

\* C26: in ParseFuncBody every insertion of a parameter or result happens
\* when the contracts of all parameters and results are in the table (each
\* field is type-parsed before its contracts are added), the insertions are
\* those of the names of the signature in order and nothing is inserted
\* between them; if the type of a parameter or result does not resolve, no
\* parameter or result is inserted.
C26_HeaderTwoPhases ==
    (call.op = "ParseFuncBody" /\ ~call.panicked) =>
      \E names \in {SignatureNames(call.arg.Type)} :
        /\ \A i \in HeadEntries :
             /\ call.log[i].ev = "AddVariable"
             /\ call.log[i].at = ReceiverContracts(call.arg.Recv) + Len(names)
             /\ SignatureParses(call.arg.Type)
             /\ i - ReceiverContracts(call.arg.Recv) \in 1 .. Len(names)
             /\ call.log[i].sym.Name = names[i - ReceiverContracts(call.arg.Recv)].Name
             /\ call.log[i].sym.Pos = names[i - ReceiverContracts(call.arg.Recv)].NamePos
        /\ ~SignatureParses(call.arg.Type) => HeadEntries = {} /\ call.err # ""
        /\ (SignatureParses(call.arg.Type) /\ HeadEntries # {}) =>
             Cardinality(HeadEntries) = Len(names)

\* func h(T int) (r T) {}: the result has the data type T, resolved before
\* the parameter T was inserted
C26_ParameterDoesNotShadow ==
    /\ call.op = "ParseFuncBody"
    /\ call.arg.Type.Params = <<Param("T", 10, "int")>>
    /\ call.arg.Type.Results = <<Param("r", 11, "T")>>
    /\ call.err = ""
    /\ Len(call.log) = 2
    /\ call.log[1].sym.Name = "T"
    /\ call.log[1].at = 2
    /\ call.log[2].sym.Def = Identifier("T", PackageName)

\* the last call was given a method whose receiver is T or *T, T an identifier
HasReceiver ==
    /\ call.op \in {"ParseFuncDecl", "ParseFuncBody"}
    /\ call.arg.Recv # Nil
    /\ Len(call.arg.Recv.List) = 1
    /\ Len(call.arg.Recv.List[1].Names) <= 2
    /\ \/ call.arg.Recv.List[1].Type.k = "Ident"
       \/ /\ call.arg.Recv.List[1].Type.k = "StarExpr"
          /\ call.arg.Recv.List[1].Type.X.k = "Ident"

\* the identifier T of the receiver
ReceiverIdent ==
    IF call.arg.Recv.List[1].Type.k = "Ident" THEN call.arg.Recv.List[1].Type
    ELSE call.arg.Recv.List[1].Type.X

\* the use of T that the receiver lookup records
ReceiverUse ==
    [package |-> Lookup(call.pre.st, ReceiverIdent.Name).def.Package,
     name |-> ReceiverIdent.Name, pos |-> ReceiverIdent.NamePos]

\* C27 as stated: ParseFuncDecl of a method whose receiver T or *T resolves
\* adds exactly one entry to the allocation table.
C27_ResolvableReceiverAllocates ==
    (/\ HasReceiver
     /\ call.op = "ParseFuncDecl"
     /\ ~Lookup(call.pre.st, ReceiverIdent.Name).err) =>
        allocated = Append(call.pre.alloc, ReceiverUse)

\* C27 (amended): ParseFuncDecl of a method whose signature type-parses and
\* whose receiver T or *T resolves returns no error and adds exactly one
\* entry to the allocation table, the use of T; if the signature does not
\* type-parse or T does not resolve it returns an error and adds none.
\* ParseFuncBody of a method adds none, and returns an error if T does not
\* resolve.
C27_ReceiverAllocation ==
    HasReceiver =>
      \E resolves \in {~Lookup(call.pre.st, ReceiverIdent.Name).err} :
        /\ call.op = "ParseFuncDecl" =>
             IF resolves /\ ~TypeParse(call.pre.st, call.arg.Type).failed
             THEN /\ call.err = ""
                  /\ allocated = Append(call.pre.alloc, ReceiverUse)
             ELSE /\ call.err # ""
                  /\ allocated = call.pre.alloc
        /\ call.op = "ParseFuncBody" =>
             /\ allocated = call.pre.alloc
             /\ ~resolves => call.err # ""

\* ParseFuncDecl of func (r *T) h(a int) recorded the use of T, and
\* ParseFuncBody of the same method after it recorded nothing
C27_DeclThenBody ==
    /\ HasReceiver
    /\ call.op = "ParseFuncBody"
    /\ call.arg.Recv.List[1].Type = StarExpr(TypeName("T"))
    /\ call.err = ""
    /\ allocated = <<[package |-> PackageName, name |-> "T", pos |-> 0]>>

\* an assignment whose sides differ in length and whose right-hand side is
\* one call, index or type assertion
IsIndexed(stmt) ==
    /\ stmt.k = "AssignStmt"
    /\ Len(stmt.Lhs) # Len(stmt.Rhs)
    /\ Len(stmt.Rhs) = 1
    /\ stmt.Rhs[1].k \in {"CallExpr", "IndexExpr", "TypeAssertExpr"}

\* C28: no call ends with the panic "rhsIndexer: out of range" or the error
\* "Rhs index out of range", and a function body of one assignment from a
\* single call, index or type assertion never panics.
C28_RhsIndexerInRange ==
    /\ call.err \notin {"rhsIndexer: out of range", "Rhs index out of range"}
    /\ (ParsedOneStatement /\ IsIndexed(call.arg.Body.List[1])) => ~call.panicked

\* a, _, err := C.f2() was served at its three indexes, the last one after
\* the results of the call
C28_LastIndexServed ==
    /\ ParsedOneStatement
    /\ IsIndexed(call.arg.Body.List[1])
    /\ Len(call.arg.Body.List[1].Lhs) = 3
    /\ call.arg.Body.List[1].Lhs[2].Name = "_"
    /\ call.err = ""
    /\ Len(call.log) = 2
    /\ call.log[2].sym.Name = "err"

\* the last operation on the stack was AddVariable, AddDataType or AddFunction
AddedSymbol == call.op \in {"AddVariable", "AddDataType", "AddFunction"}

\* C29: Size is the number of tables held and is not negative; AddVariable,
\* AddDataType and AddFunction on an empty stack return an error and leave the
\* stack as it was, and on a stack with tables they leave Size and every
\* table below the topmost one as they were.
C29_SizeAndTopmost ==
    /\ SymbolTable.Size = Len(SymbolTable.Tables)
    /\ SymbolTable.Size >= 0
    /\ AddedSymbol =>
         IF call.pre.Size = 0
         THEN call.err /\ SymbolTable = call.pre
         ELSE /\ SymbolTable.Size = call.pre.Size
              /\ \A l \in 1 .. call.pre.Size - 1 :
                   SymbolTable.Tables[l] = call.pre.Tables[l]

\* AddFunction on a stack of three tables, the lower two not empty, changed
\* the topmost table
C29_AddedAtTheTop ==
    /\ call.op = "AddFunction"
    /\ ~call.err
    /\ call.pre.Size = 3
    /\ call.pre.Tables[1] # NewTable
    /\ call.pre.Tables[2] # NewTable
    /\ SymbolTable.Tables[3] # call.pre.Tables[3]

\* Parse has ended: it returned nil or an error, or it panicked
ParseEnded == call.op = "Return" \/ call.err \/ call.panicked

\* C30: Parse terminates for every project: it eventually returns (the stack
\* empty, or with an error) or panics, also when two packages import each
\* other.
C30_ParseTerminates == <>ParseEnded

====
